---------------------------- MODULE Spec2Model ----------------------------
(***************************************************************************)
(* A model of GoSSRF: the scan manager (RunScan and its probe units), the  *)
(* detector's response classifier, and the target-space resolver of the    *)
(* configuration.                                                          *)
(*                                                                         *)
(* Strings whose content the code inspects (bodies, keywords, dictionary   *)
(* lines, Server headers) are sequences of one-character strings, so that  *)
(* strings.Contains, strings.ToLower, strings.TrimSpace and len() are      *)
(* computed and not assumed.  Payload categories are written with the      *)
(* names of the specification: PortScan is the source's "端口扫描",        *)
(* FileRead "文件读取", ProtocolProbe "协议探测", CloudMetadata "云元数据",*)
(* OOBProbe "OOB检测" and CustomDictionary "自定义字典".                   *)
(***************************************************************************)
EXTENDS Integers, Sequences, FiniteSets, TLC

VARIABLES
    \* ---- scan manager (scanner/scan_manager.go, main.go) ----
    env,          \* the transport stub and the length catalogs are cut at
    cfg,          \* the configuration record read by Validate and RunScan
    dictFile,     \* the dictionary file on disk
    mpc,          \* position of the main goroutine
    phase,        \* the scan function RunScan is in
    catalog,      \* payloads of the current scan function
    next,         \* index of the next payload the submitter launches
    sem,          \* number of elements in the semaphore channel
    wg,           \* WaitGroup counter
    upc,          \* position of each probe goroutine of the current phase
    ures,         \* each goroutine's result of DetectWithMethod
    utmp,         \* each goroutine's register for vulnCount++
    outputMux,    \* holder of sm.outputMux (0: unlocked)
    vulnCountMux, \* holder of sm.vulnCountMux (0: unlocked)
    vulnCount,    \* sm.vulnCount
    retval,       \* what RunScan returned (-1: not returned)
    stdoutLast,   \* the last line written to standard output
    fileLast,     \* the last line written to the output file
    \* ---- observers of the scan ----
    hist,         \* per probe of the current phase: launches, requests, lines
    tot,          \* over the whole run: probes, launches, verdicts
    \* ---- response classifier (detector/detector.go) ----
    cpc,          \* position of the classifier
    cin,          \* its input: status, Server header, body, payload
    cout,         \* its verdict
    \* ---- target-space resolver (config/config.go) ----
    rpc,          \* position of the resolver
    rin,          \* the address specification given to it
    rnet,         \* parseCIDR: the network (masked address, prefix length)
    rip,          \* the address variable of the loop
    rend,         \* parseIPRange: the last address
    rips,         \* the list of addresses built so far, then returned
    rerr,         \* an error was returned
    \* ---- port-list parsing (config/config.go) ----
    ppc,          \* position of parsePorts
    pin,          \* the port specification given to it
    pparts,       \* the elements between the commas
    pidx,         \* index of the element the loop is at
    ports,        \* the list of ports built so far, then returned
    seen,         \* the ports already in the list
    perr,         \* an error was returned
    \* ---- payload catalog (payloads/payloads.go) ----
    kpc,          \* position of GetPortScanPayloads
    kin,          \* its arguments
    kout,         \* the payloads it returned
    \* ---- request building (scanner/url_builder.go) ----
    bpc,          \* position of the request builder
    bin,          \* target URL, parameter, payload and method
    bout          \* the request handed to the HTTP client

scanVars == <<env, cfg, dictFile, mpc, phase, catalog, next, sem, wg, upc, ures, utmp,
              outputMux, vulnCountMux, vulnCount, retval, stdoutLast, fileLast,
              hist, tot>>
clsVars  == <<cpc, cin, cout>>
resVars  == <<rpc, rin, rnet, rip, rend, rips, rerr>>
portVars == <<ppc, pin, pparts, pidx, ports, seen, perr>>
catVars  == <<kpc, kin, kout>>
reqVars  == <<bpc, bin, bout>>
vars     == <<scanVars, clsVars, resVars, portVars, catVars, reqVars>>

-----------------------------------------------------------------------------
(* Bounds of the model.                                                    *)

\* largest Threads value explored
MaxThreads == 2
\* each scan function dispatches the first MaxCatalog payloads of its catalog
MaxCatalog == 2
\* a response body is the concatenation of at most MaxFrags fragments
MaxFrags == 2
\* largest number of host bits of a CIDR prefix (prefix length 32 - bits)
MaxHostBits == 8
\* largest distance between the two ends of an address range
MaxSpan == 6
\* largest number of elements of a port list
MaxParts == 3
\* longest address list and longest port list given to the catalog
MaxList == 2

-----------------------------------------------------------------------------
(* Strings.                                                                *)

UpperChars == <<"A", "B", "C", "D", "E", "F", "G", "H", "I", "J", "K", "L", "M", "N", "O", "P", "Q", "R", "S", "T", "U", "V", "W", "X", "Y", "Z">>
LowerChars == <<"a", "b", "c", "d", "e", "f", "g", "h", "i", "j", "k", "l", "m", "n", "o", "p", "q", "r", "s", "t", "u", "v", "w", "x", "y", "z">>
DigitChars == <<"0", "1", "2", "3", "4", "5", "6", "7", "8", "9">>

\* strings.ToLower on one character
LowerChar(c) ==
    IF \E i \in 1..26 : UpperChars[i] = c
    THEN LowerChars[CHOOSE i \in 1..26 : UpperChars[i] = c]
    ELSE c

\* strings.ToUpper on one character
UpperChar(c) ==
    IF \E i \in 1..26 : LowerChars[i] = c
    THEN UpperChars[CHOOSE i \in 1..26 : LowerChars[i] = c]
    ELSE c

\* strings.ToUpper
ToUpper(s) == [i \in 1..Len(s) |-> UpperChar(s[i])]

\* the %d verb of fmt.Sprintf on a non-negative integer
RECURSIVE Itoa(_)
Itoa(n) == IF n < 10 THEN <<DigitChars[n + 1]>>
           ELSE Itoa(n \div 10) \o <<DigitChars[(n % 10) + 1]>>

\* strings.ToLower
ToLower(s) == [i \in 1..Len(s) |-> LowerChar(s[i])]

\* strings.Contains: sub occurs in s as a contiguous run of characters
Contains(s, sub) ==
    \/ Len(sub) = 0
    \/ \E i \in 1..(Len(s) - Len(sub) + 1) :
          \A j \in 1..Len(sub) : s[i + j - 1] = sub[j]

\* containsAny of detector.go: case-insensitive search of any of substrs
containsAny(s, substrs) ==
    \E k \in 1..Len(substrs) : Contains(ToLower(s), ToLower(substrs[k]))

\* strings.HasPrefix
HasPrefix(s, p) ==
    /\ Len(s) >= Len(p)
    /\ \A j \in 1..Len(p) : s[j] = p[j]

RECURSIVE TrimLeft(_)
TrimLeft(s) == IF s # <<>> /\ Head(s) = " " THEN TrimLeft(Tail(s)) ELSE s

RECURSIVE TrimRight(_)
TrimRight(s) ==
    IF s # <<>> /\ s[Len(s)] = " " THEN TrimRight(SubSeq(s, 1, Len(s) - 1)) ELSE s

\* strings.TrimSpace (the only white space of the modelled lines is " ")
TrimSpace(s) == TrimRight(TrimLeft(s))

-----------------------------------------------------------------------------
(* Payload catalog (payloads/payloads.go).                                 *)

Payload(v, t, kw) == [Value |-> v, Type |-> t, Keywords |-> kw]

\* getServiceKeywordsByPort: the static port -> keywords table
getServiceKeywordsByPort(port) ==
    CASE port = 6379  -> << <<"r", "e", "d", "i", "s", "_", "v", "e", "r", "s", "i", "o", "n">>, <<"P", "O", "N", "G">>, <<"r", "o", "l", "e", ":", "m", "a", "s", "t", "e", "r">> >>
      [] port = 3306  -> << <<"m", "y", "s", "q", "l">>, <<"M", "a", "r", "i", "a", "D", "B">>, <<"A", "c", "c", "e", "s", "s", " ", "d", "e", "n", "i", "e", "d">> >>
      [] port = 5432  -> << <<"P", "o", "s", "t", "g", "r", "e", "S", "Q", "L">>, <<"F", "A", "T", "A", "L">>, <<"p", "a", "s", "s", "w", "o", "r", "d", " ", "a", "u", "t", "h", "e", "n", "t", "i", "c", "a", "t", "i", "o", "n">> >>
      [] port = 27017 -> << <<"M", "o", "n", "g", "o", "D", "B">>, <<"u", "n", "a", "u", "t", "h", "o", "r", "i", "z", "e", "d">>, <<"e", "r", "r", "m", "s", "g">> >>
      [] port = 9200  -> << <<"c", "l", "u", "s", "t", "e", "r", "_", "n", "a", "m", "e">>, <<"v", "e", "r", "s", "i", "o", "n">>, <<"t", "a", "g", "l", "i", "n", "e">> >>
      [] port = 11211 -> << <<"S", "T", "A", "T">>, <<"v", "e", "r", "s", "i", "o", "n">>, <<"c", "u", "r", "r", "_", "c", "o", "n", "n", "e", "c", "t", "i", "o", "n", "s">> >>
      [] port = 2375  -> << <<"C", "o", "n", "t", "a", "i", "n", "e", "r", "s">>, <<"I", "m", "a", "g", "e", "s">>, <<"A", "P", "I", " ", "v", "e", "r", "s", "i", "o", "n">> >>
      [] port \in {80, 443, 8080, 8888}
                      -> << <<"H", "T", "T", "P", "/">>, <<"S", "e", "r", "v", "e", "r", ":">>, <<"C", "o", "n", "t", "e", "n", "t", "-", "T", "y", "p", "e">> >>
      [] OTHER        -> <<>>

\* the default high-risk ports of GetPortScanPayloads, in source order
highRiskPorts ==
    <<6379, 3306, 5432, 27017, 9200, 11211, 5984, 2375, 8086, 9000,
      5000, 8080, 8888, 80, 443, 22, 21, 3389, 445>>

\* the default addresses of GetPortScanPayloads
defaultTargetIPs == << <<"1", "2", "7", ".", "0", ".", "0", ".", "1">>, <<"l", "o", "c", "a", "l", "h", "o", "s", "t">>, <<"0", ".", "0", ".", "0", ".", "0">> >>

\* the cloud metadata payloads appended by GetPortScanPayloads
cloudMetadata ==
    << Payload(<<"h", "t", "t", "p", ":", "/", "/", "1", "6", "9", ".", "2", "5", "4", ".", "1", "6", "9", ".", "2", "5", "4", "/", "l", "a", "t", "e", "s", "t", "/", "m", "e", "t", "a", "-", "d", "a", "t", "a", "/">>, "CloudMetadata",
               << <<"a", "m", "i", "-", "i", "d">>, <<"i", "n", "s", "t", "a", "n", "c", "e", "-", "i", "d">>, <<"s", "e", "c", "u", "r", "i", "t", "y", "-", "c", "r", "e", "d", "e", "n", "t", "i", "a", "l", "s">> >>),
       Payload(<<"h", "t", "t", "p", ":", "/", "/", "1", "6", "9", ".", "2", "5", "4", ".", "1", "6", "9", ".", "2", "5", "4", "/", "l", "a", "t", "e", "s", "t", "/", "m", "e", "t", "a", "-", "d", "a", "t", "a", "/", "i", "a", "m", "/", "s", "e", "c", "u", "r", "i", "t", "y", "-", "c", "r", "e", "d", "e", "n", "t", "i", "a", "l", "s", "/">>,
               "CloudMetadata",
               << <<"A", "c", "c", "e", "s", "s", "K", "e", "y", "I", "d">>, <<"S", "e", "c", "r", "e", "t", "A", "c", "c", "e", "s", "s", "K", "e", "y">>, <<"T", "o", "k", "e", "n">> >>),
       Payload(<<"h", "t", "t", "p", ":", "/", "/", "m", "e", "t", "a", "d", "a", "t", "a", ".", "g", "o", "o", "g", "l", "e", ".", "i", "n", "t", "e", "r", "n", "a", "l", "/", "c", "o", "m", "p", "u", "t", "e", "M", "e", "t", "a", "d", "a", "t", "a", "/", "v", "1", "/">>,
               "CloudMetadata",
               << <<"i", "n", "s", "t", "a", "n", "c", "e">>, <<"p", "r", "o", "j", "e", "c", "t">>, <<"s", "e", "r", "v", "i", "c", "e", "-", "a", "c", "c", "o", "u", "n", "t", "s">> >>),
       Payload(<<"h", "t", "t", "p", ":", "/", "/", "1", "0", "0", ".", "1", "0", "0", ".", "1", "0", "0", ".", "2", "0", "0", "/", "l", "a", "t", "e", "s", "t", "/", "m", "e", "t", "a", "-", "d", "a", "t", "a", "/">>, "CloudMetadata",
               << <<"i", "n", "s", "t", "a", "n", "c", "e", "-", "i", "d">>, <<"r", "e", "g", "i", "o", "n", "-", "i", "d">> >>) >>

\* fmt.Sprintf("http://%s:%d", ip, port)
PortScanValue(ip, port) == <<"h", "t", "t", "p", ":", "/", "/">> \o ip \o <<":">> \o Itoa(port)

\* GetPortScanPayloads with the two loops exchanged: ports outside,
\* addresses inside
GetPortScanPayloadsPortMajor(internalIPs, customPorts, includeCloudMetadata) ==
    LET portsToScan == IF Len(customPorts) > 0 THEN customPorts ELSE highRiskPorts
        targetIPs   == IF Len(internalIPs) > 0 THEN internalIPs ELSE defaultTargetIPs
        ni          == Len(targetIPs)
        cross       == [n \in 1..(ni * Len(portsToScan)) |->
                          LET ip   == targetIPs[((n - 1) % ni) + 1]
                              port == portsToScan[((n - 1) \div ni) + 1]
                          IN  Payload(PortScanValue(ip, port), "PortScan",
                                      getServiceKeywordsByPort(port))]
    IN  IF includeCloudMetadata THEN cross \o cloudMetadata ELSE cross

\* GetPortScanPayloads: addresses x ports, address-major, then the cloud
\* metadata payloads when includeCloudMetadata
GetPortScanPayloads(internalIPs, customPorts, includeCloudMetadata) ==
    LET portsToScan == IF Len(customPorts) > 0 THEN customPorts ELSE highRiskPorts
        targetIPs   == IF Len(internalIPs) > 0 THEN internalIPs ELSE defaultTargetIPs
        np          == Len(portsToScan)
        cross       == [n \in 1..(Len(targetIPs) * np) |->
                          LET ip   == targetIPs[((n - 1) \div np) + 1]
                              port == portsToScan[((n - 1) % np) + 1]
                          IN  Payload(PortScanValue(ip, port), "PortScan",
                                      getServiceKeywordsByPort(port))]
    IN  IF includeCloudMetadata THEN cross \o cloudMetadata ELSE cross

\* GetFileReadPayloads: the fixed file-read and protocol-probe payloads
GetFileReadPayloads ==
    << Payload(<<"f", "i", "l", "e", ":", "/", "/", "/", "e", "t", "c", "/", "p", "a", "s", "s", "w", "d">>, "FileRead",
               << <<"r", "o", "o", "t", ":">>, <<"b", "i", "n", ":">>, <<"d", "a", "e", "m", "o", "n", ":">>, <<"n", "o", "b", "o", "d", "y", ":">> >>),
       Payload(<<"f", "i", "l", "e", ":", "/", "/", "/", "e", "t", "c", "/", "s", "h", "a", "d", "o", "w">>, "FileRead", << <<"r", "o", "o", "t", ":">>, <<"$", "6", "$">>, <<"$", "5", "$">> >>),
       Payload(<<"f", "i", "l", "e", ":", "/", "/", "/", "e", "t", "c", "/", "h", "o", "s", "t", "s">>, "FileRead", << <<"l", "o", "c", "a", "l", "h", "o", "s", "t">>, <<"1", "2", "7", ".", "0", ".", "0", ".", "1">> >>),
       Payload(<<"f", "i", "l", "e", ":", "/", "/", "/", "p", "r", "o", "c", "/", "s", "e", "l", "f", "/", "e", "n", "v", "i", "r", "o", "n">>, "FileRead",
               << <<"P", "A", "T", "H", "=">>, <<"H", "O", "M", "E", "=">>, <<"U", "S", "E", "R", "=">> >>),
       Payload(<<"f", "i", "l", "e", ":", "/", "/", "/", "p", "r", "o", "c", "/", "s", "e", "l", "f", "/", "c", "m", "d", "l", "i", "n", "e">>, "FileRead",
               << <<"p", "y", "t", "h", "o", "n">>, <<"j", "a", "v", "a">>, <<"n", "o", "d", "e">> >>),
       Payload(<<"f", "i", "l", "e", ":", "/", "/", "/", "c", ":", "/", "w", "i", "n", "d", "o", "w", "s", "/", "w", "i", "n", ".", "i", "n", "i">>, "FileRead",
               << <<"[", "f", "o", "n", "t", "s", "]">>, <<"[", "e", "x", "t", "e", "n", "s", "i", "o", "n", "s", "]">>, <<"f", "o", "r", " ", "1", "6", "-", "b", "i", "t", " ", "a", "p", "p", " ", "s", "u", "p", "p", "o", "r", "t">> >>),
       Payload(<<"f", "i", "l", "e", ":", "/", "/", "/", "c", ":", "/", "w", "i", "n", "d", "o", "w", "s", "/", "s", "y", "s", "t", "e", "m", "3", "2", "/", "d", "r", "i", "v", "e", "r", "s", "/", "e", "t", "c", "/", "h", "o", "s", "t", "s">>, "FileRead",
               << <<"l", "o", "c", "a", "l", "h", "o", "s", "t">>, <<"1", "2", "7", ".", "0", ".", "0", ".", "1">> >>),
       Payload(<<"d", "i", "c", "t", ":", "/", "/", "1", "2", "7", ".", "0", ".", "0", ".", "1", ":", "6", "3", "7", "9", "/", "i", "n", "f", "o">>, "ProtocolProbe",
               << <<"r", "e", "d", "i", "s", "_", "v", "e", "r", "s", "i", "o", "n">>, <<"t", "c", "p", "_", "p", "o", "r", "t">>, <<"r", "o", "l", "e", ":">> >>),
       Payload(<<"g", "o", "p", "h", "e", "r", ":", "/", "/", "1", "2", "7", ".", "0", ".", "0", ".", "1", ":", "6", "3", "7", "9", "/", "_", "I", "N", "F", "O">>, "ProtocolProbe",
               << <<"r", "e", "d", "i", "s", "_", "v", "e", "r", "s", "i", "o", "n">>, <<"t", "c", "p", "_", "p", "o", "r", "t">> >>) >>

\* GetOOBPayloads: two probes keyed by the collector URL, none without one
GetOOBPayloads(oobServer) ==
    IF oobServer = <<>> THEN <<>>
    ELSE << Payload(oobServer \o <<"/", "c", "a", "l", "l", "b", "a", "c", "k", "?", "i", "d", "=", "h", "t", "t", "p", "-", "t", "e", "s", "t">>, "OOBProbe", <<>>),
            Payload(oobServer \o <<"/", "c", "a", "l", "l", "b", "a", "c", "k", "?", "i", "d", "=", "h", "t", "t", "p", "s", "-", "t", "e", "s", "t">>, "OOBProbe", <<>>) >>

-----------------------------------------------------------------------------
(* Response classifier (detector/detector.go).  An evidence is the number  *)
(* of the rule that fired (0: none) and the text the message is formatted  *)
(* with.                                                                   *)

Verdict(v, rule, detail) == [vulnerable |-> v, rule |-> rule, detail |-> detail]

\* the sensitive tokens of rule 3, in source order
sensitiveKeywords ==
    << <<"r", "o", "o", "t", ":">>, <<"p", "a", "s", "s", "w", "o", "r", "d">>, <<"s", "e", "c", "r", "e", "t">>, <<"t", "o", "k", "e", "n">>, <<"a", "p", "i", "_", "k", "e", "y">>,
       <<"l", "o", "c", "a", "l", "h", "o", "s", "t">>, <<"1", "2", "7", ".", "0", ".", "0", ".", "1">>, <<"p", "r", "i", "v", "a", "t", "e">>, <<"i", "n", "t", "e", "r", "n", "a", "l">>,
       <<"A", "c", "c", "e", "s", "s", "K", "e", "y", "I", "d">>, <<"S", "e", "c", "r", "e", "t", "A", "c", "c", "e", "s", "s", "K", "e", "y">> >>

\* the body length above which rule 3 scans for sensitive tokens
SensitiveMinLen == 200
\* the body length above which a 200 answer to a file-read probe counts
FileReadMinLen == 50

\* mutant: the last keyword, in keyword order, that the body contains
KeywordRuleLast(body, payload) ==
    LET kws  == payload.Keywords
        hits == {k \in 1..Len(kws) : Contains(body, kws[k])}
    IN  IF Len(kws) > 0 /\ hits # {}
        THEN Verdict(TRUE, 1, kws[CHOOSE k \in hits : \A h \in hits : k >= h])
        ELSE Verdict(FALSE, 0, <<>>)

\* rule 1: the first keyword, in keyword order, that the body contains
KeywordRule(body, payload) ==
    LET kws  == payload.Keywords
        hits == {k \in 1..Len(kws) : Contains(body, kws[k])}
    IN  IF Len(kws) > 0 /\ hits # {}
        THEN Verdict(TRUE, 1, kws[CHOOSE k \in hits : \A h \in hits : k <= h])
        ELSE Verdict(FALSE, 0, <<>>)

\* rule 2: status 200 and a category-specific shape
StatusOKRule(status, body, payload) ==
    IF status # 200 THEN Verdict(FALSE, 0, <<>>)
    ELSE IF /\ payload.Type = "PortScan"
            /\ Len(body) > 0
            /\ \/ Contains(body, <<"H", "T", "T", "P", "/">>)
               \/ Contains(body, <<"S", "e", "r", "v", "e", "r", ":">>)
               \/ Contains(body, <<"<", "h", "t", "m", "l">>)
         THEN Verdict(TRUE, 2, <<"h", "t", "t", "p">>)
    ELSE IF /\ payload.Type = "PortScan"
            /\ Len(body) > 0
            /\ containsAny(body, << <<"r", "e", "d", "i", "s">>, <<"m", "y", "s", "q", "l">>, <<"M", "o", "n", "g", "o", "D", "B">>, <<"E", "l", "a", "s", "t", "i", "c", "s", "e", "a", "r", "c", "h">> >>)
         THEN Verdict(TRUE, 2, <<"s", "e", "r", "v", "i", "c", "e">>)
    ELSE IF payload.Type = "FileRead" /\ Len(body) > FileReadMinLen
         THEN Verdict(TRUE, 2, Itoa(Len(body)))
    ELSE Verdict(FALSE, 0, <<>>)

\* rule 3: a long body with a sensitive token, compared in lower case
SensitiveRule(body) ==
    LET hits == {k \in 1..Len(sensitiveKeywords) :
                    Contains(ToLower(body), ToLower(sensitiveKeywords[k]))}
    IN  IF Len(body) > SensitiveMinLen /\ hits # {}
        THEN Verdict(TRUE, 3,
                     sensitiveKeywords[CHOOSE k \in hits : \A h \in hits : k <= h])
        ELSE Verdict(FALSE, 0, <<>>)

\* mutant: every status of the 4xx class counts
AuthStatusRuleAny4xx(status) ==
    IF status >= 400 /\ status < 500
    THEN Verdict(TRUE, 4, Itoa(status)) ELSE Verdict(FALSE, 0, <<>>)

\* rule 4: status 401 or 403
AuthStatusRule(status) ==
    IF status = 401 \/ status = 403
    THEN Verdict(TRUE, 4, Itoa(status)) ELSE Verdict(FALSE, 0, <<>>)

\* rule 5: the Server header names a known service
ServerHeaderRule(server) ==
    IF /\ server # <<>>
       /\ containsAny(server, << <<"R", "e", "d", "i", "s">>, <<"M", "y", "S", "Q", "L">>, <<"n", "g", "i", "n", "x">>, <<"A", "p", "a", "c", "h", "e">>, <<"M", "i", "c", "r", "o", "s", "o", "f", "t">> >>)
    THEN Verdict(TRUE, 5, server) ELSE Verdict(FALSE, 0, <<>>)

\* rule 6: an OOB probe answered with a status in [200, 400)
OOBRule(status, payload) ==
    IF payload.Type = "OOBProbe" /\ status >= 200 /\ status < 400
    THEN Verdict(TRUE, 6, <<>>) ELSE Verdict(FALSE, 0, <<>>)

\* analyzeResponse: the rules in source order, the first that fires wins
analyzeResponse(status, server, body, payload) ==
    LET r1 == KeywordRule(body, payload)
        r2 == StatusOKRule(status, body, payload)
        r3 == SensitiveRule(body)
        r4 == AuthStatusRule(status)
        r5 == ServerHeaderRule(server)
        r6 == OOBRule(status, payload)
    IN  IF r1.vulnerable THEN r1
        ELSE IF r2.vulnerable THEN r2
        ELSE IF r3.vulnerable THEN r3
        ELSE IF r4.vulnerable THEN r4
        ELSE IF r5.vulnerable THEN r5
        ELSE IF r6.vulnerable THEN r6
        ELSE Verdict(FALSE, 0, <<>>)

(* What the HTTP client gives back to DetectWithMethod: err is the text of *)
(* the error of client.Do (empty: a response arrived), readErr says that   *)
(* reading the body failed.                                                *)
Transport(err, readErr, status, server, body) ==
    [err |-> err, readErr |-> readErr, status |-> status, server |-> server,
     body |-> body]

\* the error message DetectWithMethod maps a failed client.Do to
\* ("连接被拒绝", "请求超时", "域名解析失败", "请求失败: " + err)
TransportErrMsg(err) ==
    IF Contains(err, <<"c", "o", "n", "n", "e", "c", "t", "i", "o", "n", " ", "r", "e", "f", "u", "s", "e", "d">>) THEN <<"c", "o", "n", "n", "e", "c", "t", "i", "o", "n", " ", "r", "e", "f", "u", "s", "e", "d">>
    ELSE IF Contains(err, <<"t", "i", "m", "e", "o", "u", "t">>) THEN <<"r", "e", "q", "u", "e", "s", "t", " ", "t", "i", "m", "e", "d", " ", "o", "u", "t">>
    ELSE IF Contains(err, <<"n", "o", " ", "s", "u", "c", "h", " ", "h", "o", "s", "t">>) THEN <<"n", "a", "m", "e", " ", "r", "e", "s", "o", "l", "u", "t", "i", "o", "n", " ", "f", "a", "i", "l", "e", "d">>
    ELSE <<"r", "e", "q", "u", "e", "s", "t", " ", "f", "a", "i", "l", "e", "d", ":", " ">> \o err

Outcome(v, ev, status, errMsg) ==
    [vulnerable |-> v, evidence |-> ev, statusCode |-> status, errMsg |-> errMsg]

\* mutant: the error of client.Do is dropped and the empty response classified
DetectIgnoringError(t, payload) ==
    LET v == analyzeResponse(t.status, t.server, t.body, payload)
    IN  Outcome(v.vulnerable, v, t.status, <<>>)

\* DetectWithMethod, after the request has been created: send it, map a
\* transport failure to its message, classify a response
DetectWithMethod(t, payload) ==
    IF t.err # <<>>
    THEN Outcome(FALSE, Verdict(FALSE, 0, <<>>), 0, TransportErrMsg(t.err))
    ELSE IF t.readErr
    THEN Outcome(FALSE, Verdict(FALSE, 0, <<>>), t.status, <<"r", "e", "a", "d", "i", "n", "g", " ", "t", "h", "e", " ", "r", "e", "s", "p", "o", "n", "s", "e", " ", "f", "a", "i", "l", "e", "d">>)
    ELSE LET v == analyzeResponse(t.status, t.server, t.body, payload)
         IN  Outcome(v.vulnerable, v, t.status, <<>>)

-----------------------------------------------------------------------------
(* Request building (scanner/url_builder.go) and configuration             *)
(* (config/config.go).                                                     *)

\* the methods Validate accepts
validMethods ==
    { <<"G", "E", "T">>, <<"P", "O", "S", "T">>, <<"P", "U", "T">>, <<"D", "E", "L", "E", "T", "E">>, <<"P", "A", "T", "C", "H">>, <<"H", "E", "A", "D">>, <<"O", "P", "T", "I", "O", "N", "S">> }

\* buildTestRequest: where the payload goes, or an error for a method the
\* builder has no case for
buildTestRequest(method) ==
    LET m == ToUpper(method)
    IN  IF m = <<"G", "E", "T">> THEN [err |-> FALSE, shape |-> "query"]
        ELSE IF m \in { <<"P", "O", "S", "T">>, <<"P", "U", "T">>, <<"P", "A", "T", "C", "H">> }
             THEN [err |-> FALSE, shape |-> "form"]
        ELSE [err |-> TRUE, shape |-> "none"]

\* ShouldScanOOB
ShouldScanOOB == cfg.OOBServer # <<>>

\* ShouldScanDefaultPayloads: called by RunScan, its body is not part of the
\* sources; a boolean the configuration determines
ShouldScanDefaultPayloads == cfg.ScanDefault

\* loadCustomPayloads: one CustomDictionary payload per trimmed line that is
\* neither empty nor a comment; an error when the file cannot be opened
RECURSIVE LinesToPayloads(_)
LinesToPayloads(lines) ==
    IF lines = <<>> THEN <<>>
    ELSE LET line == TrimSpace(Head(lines))
         IN  IF line = <<>> \/ HasPrefix(line, <<"#">>)
             THEN LinesToPayloads(Tail(lines))
             ELSE <<Payload(line, "CustomDictionary", <<>>)>>
                  \o LinesToPayloads(Tail(lines))

loadCustomPayloads(file) ==
    IF ~file.readable THEN [err |-> TRUE, payloads |-> <<>>]
    ELSE [err |-> FALSE, payloads |-> LinesToPayloads(file.lines)]

-----------------------------------------------------------------------------
(* Inputs of the scan: configurations, dictionary files, transports.       *)

Methods == { <<"g", "e", "t">>, <<"P", "O", "S", "T">>, <<"D", "E", "L", "E", "T", "E">>, <<"T", "R", "A", "C", "E">> }

DictFiles ==
    { [readable |-> FALSE, lines |-> <<>>],
      [readable |-> TRUE,
       lines |-> << <<"#", " ", "i", "n", "t", "e", "r", "n", "a", "l">>, <<" ", "h", "t", "t", "p", ":", "/", "/", "1", "0", ".", "0", ".", "0", ".", "1", "/", " ">>, <<>>, <<"f", "i", "l", "e", ":", "/", "/", "/", "e", "t", "c", "/", "h", "o", "s", "t", "s">> >>] }

\* The configurations explored.  With a dictionary file the collector and the
\* default payloads are configured too, the case in which the file has to
\* win over them, with and without addresses and ports of its own; the
\* dictionary scans run with and without an output file and with a
\* body-encoded method and some of them with a delay between requests, the
\* longer default scans with an output file and without POST.
Configs ==
    { c \in [Method : Methods, Threads : 0..MaxThreads,
             PayloadFile : {<<>>, <<"d", "i", "c", "t", ".", "t", "x", "t">>}, OOBServer : {<<>>, <<"h", "t", "t", "p", ":", "/", "/", "o", "o", "b">>},
             OutputFile : {<<>>, <<"o", "u", "t", ".", "t", "x", "t">>}, ScanDefault : BOOLEAN,
             InternalIPs : {<<>>, << <<"1", "0", ".", "0", ".", "0", ".", "1">> >>}, PortList : {<<>>, <<22>>},
             DelayTime : {0, 1}] :
        /\ c.DelayTime # 0 =>
              (c.PayloadFile # <<>> /\ c.OutputFile = <<>> /\ c.InternalIPs = <<>>)
        /\ c.PayloadFile # <<>> => (c.OOBServer # <<>> /\ c.ScanDefault)
        /\ c.PayloadFile = <<>> => (c.Method # <<"P", "O", "S", "T">> /\ c.OutputFile # <<>>)
        /\ c.PayloadFile = <<>> => (c.InternalIPs = <<>> /\ c.PortList = <<>>)
        /\ (c.InternalIPs = <<>>) = (c.PortList = <<>>)
        /\ c.OOBServer # <<>> => c.ScanDefault }

ScanTransports ==
    { Transport(<<"c", "o", "n", "n", "e", "c", "t", ":", " ", "c", "o", "n", "n", "e", "c", "t", "i", "o", "n", " ", "r", "e", "f", "u", "s", "e", "d">>, FALSE, 0, <<>>, <<>>),
      Transport(<<>>, TRUE, 200, <<>>, <<>>),
      Transport(<<>>, FALSE, 200, <<>>, <<"r", "e", "d", "i", "s", "_", "v", "e", "r", "s", "i", "o", "n", ":", "6", ".", "2">>),
      Transport(<<>>, FALSE, 404, <<>>, <<>>),
      Transport(<<>>, FALSE, 403, <<>>, <<>>) }

\* The stub transport of the end-to-end run: the body "redis_version:6.2",
\* under a status of either class, for the probe value
\* http://127.0.0.1:6379, and status 404 with an empty body and no Server
\* header for every other probe.
RedisStub(value) ==
    IF value = <<"h", "t", "t", "p", ":", "/", "/", "1", "2", "7", ".", "0", ".", "0", ".", "1", ":", "6", "3", "7", "9">>
    THEN { Transport(<<>>, FALSE, st, <<>>, <<"r", "e", "d", "i", "s", "_", "v", "e", "r", "s", "i", "o", "n", ":", "6", ".", "2">>) : st \in {200, 500} }
    ELSE { Transport(<<>>, FALSE, 404, <<>>, <<>>) }

\* the number of payloads of the longest catalog
WholeCatalog == Len(GetPortScanPayloads(<<>>, <<>>, TRUE))

\* the configurations of the end-to-end run: GET, the default target space,
\* no dictionary file, no OOB server, one probe at a time (the interleavings
\* of several are explored with the short catalogs)
E2EConfigs ==
    [Method : { <<"G", "E", "T">> }, Threads : {1}, PayloadFile : {<<>>},
     OOBServer : {<<>>}, OutputFile : { <<"o", "u", "t", ".", "t", "x", "t">> }, ScanDefault : BOOLEAN,
     InternalIPs : {<<>>}, PortList : {<<>>}, DelayTime : {0}]

\* the first n elements of s
Take(s, n) == SubSeq(s, 1, IF Len(s) < n THEN Len(s) ELSE n)

Units == 1..MaxCatalog

NoOutcome == Outcome(FALSE, Verdict(FALSE, 0, <<>>), 0, <<>>)

NoHist == [launched |-> 0, sent |-> 0, progress |-> 0, errors |-> 0, vulns |-> 0,
           failed |-> FALSE, verdict |-> FALSE, finished |-> FALSE]

Line(kind, ph, i) == [kind |-> kind, phase |-> ph, idx |-> i]

NoLine == Line("none", "none", 0)

-----------------------------------------------------------------------------
(* The scan manager (scanner/scan_manager.go) and main (main.go).          *)

\* the state main starts RunScan from, but for the configuration, the
\* dictionary file and the environment
ScanStart ==
    /\ mpc = "validate"
    /\ phase = "none"
    /\ catalog = <<>>
    /\ next = 1
    /\ sem = 0
    /\ wg = 0
    /\ upc = [u \in 1..env.limit |-> "idle"]
    /\ ures = [u \in 1..env.limit |-> NoOutcome]
    /\ utmp = [u \in 1..env.limit |-> 0]
    /\ outputMux = 0
    /\ vulnCountMux = 0
    /\ vulnCount = 0
    /\ retval = -1
    /\ stdoutLast = NoLine
    /\ fileLast = NoLine
    /\ hist = [u \in 1..env.limit |-> NoHist]
    /\ tot = [probes |-> 0, launched |-> 0, finished |-> 0, verdicts |-> 0]

\* any configuration, any answer to each request, catalogs cut at MaxCatalog
ScanInit ==
    /\ env = [stub |-> "any", limit |-> MaxCatalog]
    /\ cfg \in Configs
    /\ dictFile \in DictFiles
    /\ (cfg.PayloadFile = <<>> => ~dictFile.readable)
    /\ ScanStart

\* a line printed to the terminal and, when an output file is open, written
\* to the file as well
Emit(line) ==
    /\ stdoutLast' = line
    /\ fileLast' = IF cfg.OutputFile # <<>> THEN line ELSE fileLast

\* Config.Validate, as far as the method goes (the target URL and the
\* parameter name are set; InternalIPs and PortList hold what
\* parseInternalIPs and parsePorts returned).  main exits on an error.
Validate ==
    /\ mpc = "validate"
    /\ cfg' = [cfg EXCEPT !.Method = ToUpper(cfg.Method)]
    /\ IF ToUpper(cfg.Method) \in validMethods
       THEN /\ mpc' = "open"
            /\ stdoutLast' = stdoutLast
       ELSE /\ mpc' = "exit"
            /\ stdoutLast' = Line("configerror", "none", 0)
    /\ UNCHANGED <<env, dictFile, phase, catalog, next, sem, wg, upc, ures, utmp,
                   outputMux, vulnCountMux, vulnCount, retval, fileLast, hist, tot>>

\* main: the output file is created, an empty line is printed
MainOpen ==
    /\ mpc = "open"
    /\ mpc' = "runscan"
    /\ Emit(Line("blank", "none", 0))
    /\ UNCHANGED <<env, cfg, dictFile, phase, catalog, next, sem, wg, upc, ures, utmp,
                   outputMux, vulnCountMux, vulnCount, retval, hist, tot>>

\* the payloads a scan function dispatches
PhaseCatalog(ph) ==
    IF ph = "ports"
    THEN IF cfg.PayloadFile # <<>> THEN <<>>
         ELSE Take(GetPortScanPayloads(cfg.InternalIPs, cfg.PortList,
                                       ShouldScanDefaultPayloads), env.limit)
    ELSE IF ph = "file"
    THEN IF cfg.PayloadFile # <<>> THEN <<>>
         ELSE Take(GetFileReadPayloads, env.limit)
    ELSE IF ph = "oob" THEN Take(GetOOBPayloads(cfg.OOBServer), env.limit)
    ELSE Take(loadCustomPayloads(dictFile).payloads, env.limit)

\* mutant: RunScan goes on to the OOB scan after the dictionary scan
NextPhaseNoReturn(ph) ==
    IF ph = "custom" /\ ShouldScanOOB THEN "oob"
    ELSE IF ph = "ports" /\ ShouldScanDefaultPayloads THEN "file"
    ELSE IF ph \in {"ports", "file"} /\ ShouldScanOOB /\ ShouldScanDefaultPayloads
         THEN "oob"
    ELSE "none"

\* the scan function RunScan calls after ph, "none" when it returns
NextPhase(ph) ==
    IF ph = "ports" /\ ShouldScanDefaultPayloads THEN "file"
    ELSE IF ph \in {"ports", "file"} /\ ShouldScanOOB /\ ShouldScanDefaultPayloads
         THEN "oob"
    ELSE "none"

\* entering a scan function: a new semaphore and a new WaitGroup
EnterPhase(ph) ==
    /\ phase' = ph
    /\ catalog' = PhaseCatalog(ph)
    /\ next' = 1
    /\ sem' = 0
    /\ wg' = 0
    /\ upc' = [u \in DOMAIN upc |-> "idle"]
    /\ hist' = [u \in DOMAIN hist |-> NoHist]
    /\ tot' = [tot EXCEPT !.probes = @ + Len(PhaseCatalog(ph))]
    /\ mpc' = "submit"

\* RunScan: the dictionary scan alone when a dictionary file is configured,
\* the port scan first otherwise
RunScanStart ==
    /\ mpc = "runscan"
    /\ IF cfg.PayloadFile # <<>> /\ loadCustomPayloads(dictFile).err
       THEN /\ mpc' = "return"
            /\ stdoutLast' = Line("loadfail", "custom", 0)
            /\ UNCHANGED <<phase, catalog, next, sem, wg, upc, hist, tot>>
       ELSE /\ EnterPhase(IF cfg.PayloadFile # <<>> THEN "custom" ELSE "ports")
            /\ stdoutLast' = stdoutLast
    /\ UNCHANGED <<env, cfg, dictFile, ures, utmp, outputMux, vulnCountMux, vulnCount,
                   retval, fileLast>>

\* mutant: a Lock that does not wait
CanLockAlways(mux) == TRUE

\* sync.Mutex.Lock returns only when the mutex is unlocked
CanLock(mux) == mux = 0

\* mutant: a buffer with room for one element more than its capacity
CanSendOneMore(n, capacity) == n <= capacity

\* a send on the semaphore channel returns only when the buffer has room
CanSend(n, capacity) == n < capacity

\* mutant: a Wait that does not wait
CanReturnAlways(n) == TRUE

\* wg.Wait returns only when the counter is zero
CanReturnFromWait(n) == n = 0

\* the submitter: wg.Add(1), a slot of the semaphore, then the goroutine
Submit ==
    /\ mpc = "submit"
    /\ next <= Len(catalog)
    /\ CanSend(sem, cfg.Threads)
    /\ wg' = wg + 1
    /\ sem' = sem + 1
    /\ upc' = [upc EXCEPT ![next] = "build"]
    /\ hist' = [hist EXCEPT ![next].launched = @ + 1]
    /\ tot' = [tot EXCEPT !.launched = @ + 1]
    /\ next' = next + 1
    /\ UNCHANGED <<env, cfg, dictFile, mpc, phase, catalog, ures, utmp, outputMux,
                   vulnCountMux, vulnCount, retval, stdoutLast, fileLast>>

\* the submitter after the last payload: wg.Wait, then the next scan
\* function of RunScan or its return
WaitAll ==
    /\ mpc = "submit"
    /\ next > Len(catalog)
    /\ CanReturnFromWait(wg)
    /\ IF NextPhase(phase) = "none"
       THEN /\ mpc' = "return"
            /\ UNCHANGED <<phase, catalog, next, sem, wg, upc, hist, tot>>
       ELSE EnterPhase(NextPhase(phase))
    /\ UNCHANGED <<env, cfg, dictFile, ures, utmp, outputMux, vulnCountMux, vulnCount,
                   retval, stdoutLast, fileLast>>

\* RunScan returns sm.vulnCount
RunScanReturn ==
    /\ mpc = "return"
    /\ retval' = vulnCount
    /\ mpc' = "summary"
    /\ UNCHANGED <<env, cfg, dictFile, phase, catalog, next, sem, wg, upc, ures, utmp,
                   outputMux, vulnCountMux, vulnCount, stdoutLast, fileLast, hist, tot>>

\* main prints the summary with the count RunScan returned
Summary ==
    /\ mpc = "summary"
    /\ mpc' = "done"
    /\ Emit(Line("summary", "none", retval))
    /\ UNCHANGED <<env, cfg, dictFile, phase, catalog, next, sem, wg, upc, ures, utmp,
                   outputMux, vulnCountMux, vulnCount, retval, hist, tot>>

(* testPayload, one action per step another goroutine can observe.         *)

\* mutant: the return on a build error leaves without giving the slot back
BuildNoRelease(u) ==
    /\ upc[u] = "build"
    /\ upc' = [upc EXCEPT ![u] = IF buildTestRequest(cfg.Method).err
                                 THEN "wgdone" ELSE "lock1"]
    /\ UNCHANGED <<env, cfg, dictFile, mpc, phase, catalog, next, sem, wg, ures, utmp,
                   outputMux, vulnCountMux, vulnCount, retval, stdoutLast, fileLast,
                   hist, tot>>

\* buildTestRequest; on an error testPayload returns at once
Build(u) ==
    /\ upc[u] = "build"
    /\ upc' = [upc EXCEPT ![u] = IF buildTestRequest(cfg.Method).err
                                 THEN "release" ELSE "lock1"]
    /\ UNCHANGED <<env, cfg, dictFile, mpc, phase, catalog, next, sem, wg, ures, utmp,
                   outputMux, vulnCountMux, vulnCount, retval, stdoutLast, fileLast,
                   hist, tot>>

\* sm.outputMux.Lock() before the progress line
LockProgress(u) ==
    /\ upc[u] = "lock1"
    /\ CanLock(outputMux)
    /\ outputMux' = u
    /\ upc' = [upc EXCEPT ![u] = "progress"]
    /\ UNCHANGED <<env, cfg, dictFile, mpc, phase, catalog, next, sem, wg, ures, utmp,
                   vulnCountMux, vulnCount, retval, stdoutLast, fileLast, hist, tot>>

\* the progress line, then sm.outputMux.Unlock()
WriteProgress(u) ==
    /\ upc[u] = "progress"
    /\ Emit(Line("progress", phase, u))
    /\ hist' = [hist EXCEPT ![u].progress = @ + 1]
    /\ outputMux' = 0
    /\ upc' = [upc EXCEPT ![u] = "detect"]
    /\ UNCHANGED <<env, cfg, dictFile, mpc, phase, catalog, next, sem, wg, ures, utmp,
                   vulnCountMux, vulnCount, retval, tot>>

\* what the transport may give back for the request of a probe
Answers(payload) ==
    IF env.stub = "any" THEN ScanTransports ELSE RedisStub(payload.Value)

\* sm.detector.DetectWithMethod: one request, answered by the transport
Detect(u) ==
    /\ upc[u] = "detect"
    /\ \E t \in Answers(catalog[u]) :
          LET o == DetectWithMethod(t, catalog[u])
          IN  /\ ures' = [ures EXCEPT ![u] = o]
              /\ hist' = [hist EXCEPT ![u] = [@ EXCEPT !.sent = @ + 1,
                                                       !.failed = (t.err # <<>>),
                                                       !.verdict = o.evidence.vulnerable]]
              /\ tot' = [tot EXCEPT !.verdicts =
                            IF o.evidence.vulnerable THEN @ + 1 ELSE @]
    /\ upc' = [upc EXCEPT ![u] = "lock2"]
    /\ UNCHANGED <<env, cfg, dictFile, mpc, phase, catalog, next, sem, wg, utmp,
                   outputMux, vulnCountMux, vulnCount, retval, stdoutLast, fileLast>>

\* mutant: the outcome is written without taking sm.outputMux
LockOutcomeNoWait(u) ==
    /\ upc[u] = "lock2"
    /\ outputMux' = u
    /\ upc' = [upc EXCEPT ![u] = "outcome"]
    /\ UNCHANGED <<env, cfg, dictFile, mpc, phase, catalog, next, sem, wg, ures, utmp,
                   vulnCountMux, vulnCount, retval, stdoutLast, fileLast, hist, tot>>

\* sm.outputMux.Lock() before the outcome
LockOutcome(u) ==
    /\ upc[u] = "lock2"
    /\ CanLock(outputMux)
    /\ outputMux' = u
    /\ upc' = [upc EXCEPT ![u] = "outcome"]
    /\ UNCHANGED <<env, cfg, dictFile, mpc, phase, catalog, next, sem, wg, ures, utmp,
                   vulnCountMux, vulnCount, retval, stdoutLast, fileLast, hist, tot>>

\* the error line if errMsg != "", then the vulnerability line if vulnerable
\* (DetectWithMethod returns no outcome with both)
WriteOutcome(u) ==
    /\ upc[u] = "outcome"
    /\ IF ures[u].vulnerable
       THEN /\ Emit(Line("vuln", phase, u))
            /\ hist' = [hist EXCEPT ![u] =
                          [@ EXCEPT !.vulns = @ + 1,
                                    !.errors = IF ures[u].errMsg # <<>> THEN @ + 1 ELSE @]]
       ELSE IF ures[u].errMsg # <<>>
       THEN /\ Emit(Line("error", phase, u))
            /\ hist' = [hist EXCEPT ![u].errors = @ + 1]
       ELSE UNCHANGED <<stdoutLast, fileLast, hist>>
    /\ upc' = [upc EXCEPT ![u] = IF ures[u].vulnerable THEN "count" ELSE "unlock"]
    /\ UNCHANGED <<env, cfg, dictFile, mpc, phase, catalog, next, sem, wg, ures, utmp,
                   outputMux, vulnCountMux, vulnCount, retval, tot>>

\* sm.vulnCountMux.Lock() and the read of sm.vulnCount++
CountLockRead(u) ==
    /\ upc[u] = "count"
    /\ CanLock(vulnCountMux)
    /\ vulnCountMux' = u
    /\ utmp' = [utmp EXCEPT ![u] = vulnCount]
    /\ upc' = [upc EXCEPT ![u] = "store"]
    /\ UNCHANGED <<env, cfg, dictFile, mpc, phase, catalog, next, sem, wg, ures,
                   outputMux, vulnCount, retval, stdoutLast, fileLast, hist, tot>>

\* the write of sm.vulnCount++ and sm.vulnCountMux.Unlock()
CountStoreUnlock(u) ==
    /\ upc[u] = "store"
    /\ vulnCount' = utmp[u] + 1
    /\ vulnCountMux' = 0
    /\ utmp' = [utmp EXCEPT ![u] = 0]
    /\ upc' = [upc EXCEPT ![u] = "unlock"]
    /\ UNCHANGED <<env, cfg, dictFile, mpc, phase, catalog, next, sem, wg, ures,
                   outputMux, retval, stdoutLast, fileLast, hist, tot>>

\* sm.outputMux.Unlock() at the end of testPayload
UnlockOutcome(u) ==
    /\ upc[u] = "unlock"
    /\ outputMux' = 0
    /\ ures' = [ures EXCEPT ![u] = NoOutcome]
    /\ upc' = [upc EXCEPT ![u] = "release"]
    /\ UNCHANGED <<env, cfg, dictFile, mpc, phase, catalog, next, sem, wg, utmp,
                   vulnCountMux, vulnCount, retval, stdoutLast, fileLast, hist, tot>>

\* the deferred function: first the slot goes back to the semaphore
Release(u) ==
    /\ upc[u] = "release"
    /\ sem' = sem - 1
    /\ upc' = [upc EXCEPT ![u] = "wgdone"]
    /\ UNCHANGED <<env, cfg, dictFile, mpc, phase, catalog, next, wg, ures, utmp,
                   outputMux, vulnCountMux, vulnCount, retval, stdoutLast, fileLast,
                   hist, tot>>

\* the deferred function: then wg.Done()
WgDone(u) ==
    /\ upc[u] = "wgdone"
    /\ wg' = wg - 1
    /\ upc' = [upc EXCEPT ![u] = "finished"]
    /\ hist' = [hist EXCEPT ![u].finished = TRUE]
    /\ tot' = [tot EXCEPT !.finished = @ + 1]
    /\ UNCHANGED <<env, cfg, dictFile, mpc, phase, catalog, next, sem, ures, utmp,
                   outputMux, vulnCountMux, vulnCount, retval, stdoutLast, fileLast>>

-----------------------------------------------------------------------------
(* The classifier on its own: one response, one payload, one verdict.      *)

\* fragments response bodies are made of: the first keyword of the Redis
\* probe in both cases, its second keyword followed by its first, an HTML
\* tag, a filler above the threshold of the file-read rule, and a sensitive
\* token padded above the threshold of rule 3
Filler(n) == [i \in 1..n |-> "x"]

Fragments ==
    << <<"r", "e", "d", "i", "s", "_", "v", "e", "r", "s", "i", "o", "n">>, <<"R", "E", "D", "I", "S", "_", "V", "E", "R", "S", "I", "O", "N">>, <<"P", "O", "N", "G", " ", "r", "e", "d", "i", "s", "_", "v", "e", "r", "s", "i", "o", "n">>, <<"<", "h", "t", "m", "l">>,
       Filler(FileReadMinLen + 1),
       <<"p", "a", "s", "s", "w", "o", "r", "d">> \o Filler(SensitiveMinLen - 7) >>

RECURSIVE Concat(_)
Concat(ss) == IF ss = <<>> THEN <<>> ELSE Head(ss) \o Concat(Tail(ss))

Bodies ==
    UNION { { Concat([i \in 1..n |-> Fragments[f[i]]]) :
                f \in [1..n -> 1..Len(Fragments)] } : n \in 0..MaxFrags }

ClsStatuses == {200, 302, 403, 404}

ClsServers == { <<>>, <<"N", "G", "I", "N", "X", "/", "1", ".", "1", "8">> }

ClsPayloads ==
    { GetPortScanPayloads(<<>>, <<>>, FALSE)[1],
      GetPortScanPayloads(<< <<"1", "0", ".", "0", ".", "0", ".", "1">> >>, <<22>>, FALSE)[1],
      GetFileReadPayloads[1],
      GetFileReadPayloads[8],
      GetOOBPayloads(<<"h", "t", "t", "p", ":", "/", "/", "o", "o", "b">>)[1],
      LinesToPayloads(<< <<"h", "t", "t", "p", ":", "/", "/", "1", "0", ".", "0", ".", "0", ".", "1", "/">> >>)[1] }

ClsInit ==
    /\ cpc = "ready"
    /\ cin \in [status : ClsStatuses, server : ClsServers, body : Bodies,
                payload : ClsPayloads]
    /\ cout = <<>>

\* analyzeResponse applied to the input
Classify ==
    /\ cpc = "ready"
    /\ cout' = analyzeResponse(cin.status, cin.server, cin.body, cin.payload)
    /\ cpc' = "done"
    /\ UNCHANGED cin

-----------------------------------------------------------------------------
(* Target-space resolver (config/config.go): parseCIDR and parseIPRange,   *)
(* with the parts of package net and fmt they call.  An address is a       *)
(* sequence of four bytes.                                                 *)

\* strings.Split on a one-character separator
RECURSIVE Split(_, _)
Split(s, sep) ==
    IF \A i \in 1..Len(s) : s[i] # sep THEN <<s>>
    ELSE LET i == CHOOSE i \in 1..Len(s) :
                     s[i] = sep /\ \A j \in 1..(i - 1) : s[j] # sep
         IN  <<SubSeq(s, 1, i - 1)>> \o Split(SubSeq(s, i + 1, Len(s)), sep)

IsDigit(c) == \E i \in 1..10 : DigitChars[i] = c

DigitVal(c) == (CHOOSE i \in 1..10 : DigitChars[i] = c) - 1

\* the value of a run of decimal digits
RECURSIVE Atoi(_)
Atoi(s) == IF s = <<>> THEN 0
           ELSE Atoi(SubSeq(s, 1, Len(s) - 1)) * 10 + DigitVal(s[Len(s)])

\* net.ParseIP on a dotted-decimal literal followed by To4: four fields of
\* one to three digits without a leading zero, each at most 255; <<>> (nil)
\* otherwise
ParseIP(s) ==
    LET f == Split(s, ".")
    IN  IF /\ Len(f) = 4
           /\ \A i \in 1..4 :
                 /\ Len(f[i]) \in 1..3
                 /\ \A j \in 1..Len(f[i]) : IsDigit(f[i][j])
                 /\ Len(f[i]) > 1 => f[i][1] # "0"
                 /\ Atoi(f[i]) <= 255
        THEN [i \in 1..4 |-> Atoi(f[i])]
        ELSE <<>>

\* net.IP.String of a four-byte address
IPString(ip) ==
    Itoa(ip[1]) \o <<".">> \o Itoa(ip[2]) \o <<".">> \o Itoa(ip[3]) \o <<".">> \o Itoa(ip[4])

\* byte i of net.CIDRMask(ones, 32), as the number of its low zero bits
ZeroBits(ones, i) ==
    LET set == ones - 8 * (i - 1)
    IN  IF set >= 8 THEN 0 ELSE IF set <= 0 THEN 8 ELSE 8 - set

\* net.IP.Mask: each byte and-ed with the byte of the mask
Mask(ip, ones) == [i \in 1..4 |-> ip[i] - (ip[i] % (2 ^ ZeroBits(ones, i)))]

\* net.ParseCIDR: address and prefix length around the "/", the network is
\* the masked address
ParseCIDR(s) ==
    LET parts == Split(s, "/")
        ip    == IF Len(parts) = 2 THEN ParseIP(parts[1]) ELSE <<>>
        ok    == /\ Len(parts) = 2
                 /\ ip # <<>>
                 /\ Len(parts[2]) \in 1..3
                 /\ \A j \in 1..Len(parts[2]) : IsDigit(parts[2][j])
                 /\ Atoi(parts[2]) <= 32
    IN  IF ok THEN [err |-> FALSE, ip |-> ip,
                    ipNet |-> [IP |-> Mask(ip, Atoi(parts[2])), ones |-> Atoi(parts[2])]]
        ELSE [err |-> TRUE, ip |-> <<>>, ipNet |-> <<>>]

\* net.IPNet.Contains
NetContains(ipNet, ip) == Mask(ip, ipNet.ones) = ipNet.IP

\* inc: add one to the last byte, carrying into the byte before it while the
\* byte wrapped to zero
RECURSIVE IncFrom(_, _)
IncFrom(ip, j) ==
    IF j = 0 THEN ip
    ELSE LET b == (ip[j] + 1) % 256
         IN  IF b > 0 THEN [ip EXCEPT ![j] = b]
             ELSE IncFrom([ip EXCEPT ![j] = b], j - 1)

inc(ip) == IncFrom(ip, Len(ip))

RECURSIVE CompareFrom(_, _, _)
CompareFrom(ip1, ip2, i) ==
    IF i > Len(ip1) THEN 0
    ELSE IF ip1[i] < ip2[i] THEN -1
    ELSE IF ip1[i] > ip2[i] THEN 1
    ELSE CompareFrom(ip1, ip2, i + 1)

\* mutant: only the last bytes are compared
CompareLastByte(ip1, ip2) ==
    IF ip1[4] < ip2[4] THEN -1 ELSE IF ip1[4] > ip2[4] THEN 1 ELSE 0

\* compareIP: byte by byte from the first
compareIP(ip1, ip2) == CompareFrom(ip1, ip2, 1)

\* fmt.Sscanf(str, "%d"): leading spaces are skipped, then an optional sign
\* and the longest run of digits after it; an error when the run is empty
ScanInt(str) ==
    LET s    == TrimLeft(str)
        neg  == s # <<>> /\ s[1] = "-"
        t    == IF s # <<>> /\ s[1] \in {"+", "-"} THEN Tail(s) ELSE s
        n    == IF \A i \in 1..Len(t) : IsDigit(t[i]) THEN Len(t)
                ELSE (CHOOSE i \in 1..Len(t) :
                         ~IsDigit(t[i]) /\ \A j \in 1..(i - 1) : IsDigit(t[j])) - 1
        v    == Atoi(SubSeq(t, 1, n))
    IN  IF n = 0 THEN [err |-> TRUE, val |-> 0]
        ELSE [err |-> FALSE, val |-> IF neg THEN 0 - v ELSE v]

\* mutant: the first and the last address are dropped whatever the length
StripEndsAlways(ips) == SubSeq(ips, 2, Len(ips) - 1)

\* the end of parseCIDR: the first and the last address are dropped from a
\* list of more than two
StripEnds(ips) == IF Len(ips) > 2 THEN SubSeq(ips, 2, Len(ips) - 1) ELSE ips

\* parseIPRange up to the loop: the two ends of the range, or an error
RangeEnds(rangeStr) ==
    LET parts   == Split(rangeStr, "-")
        startIP == ParseIP(TrimSpace(parts[1]))
        endStr  == TrimSpace(parts[2])
        last    == ScanInt(endStr)
        endIP   == IF Contains(endStr, <<".">>) THEN ParseIP(endStr)
                   ELSE IF last.err \/ last.val < 0 \/ last.val > 255 THEN <<>>
                   ELSE [startIP EXCEPT ![4] = last.val]
        bad     == [err |-> TRUE, startIP |-> <<>>, endIP |-> <<>>]
    IN  IF Len(parts) # 2 THEN bad
        ELSE IF startIP = <<>> THEN bad
        ELSE IF endIP = <<>> THEN bad
        ELSE IF compareIP(startIP, endIP) > 0 THEN bad
        ELSE [err |-> FALSE, startIP |-> startIP, endIP |-> endIP]

\* the three low bytes of an address as a number, and back
Low(ip) == ip[2] * 65536 + ip[3] * 256 + ip[4]

FromLow(first, n) == <<first, (n \div 65536) % 256, (n \div 256) % 256, n % 256>>

\* Inputs: each base address under every prefix length that leaves at most
\* MaxHostBits host bits, and three strings net.ParseCIDR rejects
CidrBases == { <<192, 168, 1, 0>>, <<10, 20, 30, 77>>, <<255, 255, 255, 200>> }

CidrInputs ==
    { IPString(b) \o <<"/">> \o Itoa(32 - h) : b \in CidrBases, h \in 0..MaxHostBits }
    \cup { <<"0", ".", "0", ".", "0", ".", "0", "/", "0">>, <<"1", "0", ".", "0", ".", "0", ".", "0", "/", "3", "3">>, <<"1", "0", ".", "0", ".", "0", ".", "2", "5", "6", "/", "2", "4">>, <<"1", "0", ".", "0", ".", "0", ".", "0", "/", "x">> }

\* Inputs: from each start, the ends one below it up to MaxSpan above it, in
\* the short and in the full form, and strings of other shapes
RangeStarts == { <<10, 0, 0, 5>>, <<10, 0, 0, 253>>, <<255, 255, 255, 250>> }

RangeInputs ==
    { IPString(s) \o <<"-">> \o Itoa(s[4] + d) : s \in RangeStarts, d \in (-1)..MaxSpan }
    \cup { IPString(s) \o <<"-">> \o IPString(FromLow(s[1], (Low(s) + d) % 16777216)) :
             s \in RangeStarts, d \in (-1)..MaxSpan }
    \cup { <<" ", "1", "0", ".", "0", ".", "0", ".", "5", " ", "-", " ", "8", " ">>, <<"1", "0", ".", "0", ".", "0", ".", "5", "-", "8", "-", "9">>, <<"1", "0", ".", "0", ".", "0", ".", "5", "-", "x">>, <<"1", "0", ".", "0", ".", "0", ".", "5", "-", "+", "7">>,
           <<"1", "0", ".", "0", ".", "0", "-", "8">>, <<"1", "0", ".", "0", ".", "0", ".", "5", "-", "1", "0", ".", "0", ".", "0">>, <<"1", "0", ".", "0", ".", "0", ".", "5", "-", "0", "1", "0">> }

\* Inputs: single addresses and host names, with and without "-", with
\* characters outside the class of host names, empty and blank strings
HostInputs ==
    { <<"d", "b">>, <<" ", "d", "b", " ">>, <<"W", "e", "b", "0", "1">>, <<"m", "y", "_", "h", "o", "s", "t", ".", "l", "o", "c", "a", "l">>, <<"m", "y", "-", "h", "o", "s", "t">>, <<"d", "b", "-", "1">>, <<"-">>,
      <<"1", "0", ".", "0", ".", "0", ".", "1">>, <<"1", ".", "2", ".", "3">>, <<"a", " ", "b">>, <<"h", ":", "1">>, <<>>, <<" ", " ">>, <<"m", "y", "-", "h", "o", "s", "t", "/", "2", "4">>,
      <<"1", "0", ".", "0", ".", "0", ".", "1", "-", "m", "y", "-", "h", "o", "s", "t">> }

ResInit ==
    /\ rpc = "call"
    /\ rin \in CidrInputs \cup RangeInputs \cup HostInputs
    /\ rnet = <<>>
    /\ rip = <<>>
    /\ rend = <<>>
    /\ rips = <<>>
    /\ rerr = FALSE

\* parseInternalIPs sends a trimmed string with a "/" to parseCIDR, which
\* parses it and starts the loop at the masked address
CIDRStart ==
    /\ rpc = "call"
    /\ Contains(TrimSpace(rin), <<"/">>)
    /\ LET r == ParseCIDR(TrimSpace(rin))
       IN  IF r.err
           THEN /\ rerr' = TRUE
                /\ rpc' = "done"
                /\ UNCHANGED <<rnet, rip>>
           ELSE /\ rnet' = r.ipNet
                /\ rip' = Mask(r.ip, r.ipNet.ones)
                /\ rpc' = "cidrLoop"
                /\ UNCHANGED rerr
    /\ UNCHANGED <<rin, rend, rips>>

\* the model follows the loop of parseCIDR for one iteration more than the
\* largest network of the inputs that is not the whole address space has
\* addresses
CidrLoopCap == 2 ^ MaxHostBits + 1

\* one iteration of the loop of parseCIDR
CIDRStep ==
    /\ rpc = "cidrLoop"
    /\ NetContains(rnet, rip)
    /\ Len(rips) < CidrLoopCap
    /\ rips' = Append(rips, IPString(rip))
    /\ rip' = inc(rip)
    /\ UNCHANGED <<rpc, rin, rnet, rend, rerr>>

\* the loop of parseCIDR ends, the list is stripped and returned
CIDRReturn ==
    /\ rpc = "cidrLoop"
    /\ ~NetContains(rnet, rip)
    /\ rips' = StripEnds(rips)
    /\ rpc' = "done"
    /\ UNCHANGED <<rin, rnet, rip, rend, rerr>>

\* mutant: no string is taken for a range
IsRangeSpecNever(ipStr) == FALSE

\* the first test of parseInternalIPs: a "-" and no "/"
IsRangeSpec(ipStr) == Contains(ipStr, <<"-">>) /\ ~Contains(ipStr, <<"/">>)

\* parseInternalIPs sends a trimmed string with a "-" and no "/" to
\* parseIPRange, which parses the two ends and starts the loop at the first
RangeStart ==
    /\ rpc = "call"
    /\ IsRangeSpec(TrimSpace(rin))
    /\ LET r == RangeEnds(TrimSpace(rin))
       IN  IF r.err
           THEN /\ rerr' = TRUE
                /\ rpc' = "done"
                /\ UNCHANGED <<rip, rend>>
           ELSE /\ rip' = r.startIP
                /\ rend' = r.endIP
                /\ rpc' = "rangeLoop"
                /\ UNCHANGED rerr
    /\ UNCHANGED <<rin, rnet, rips>>

\* one iteration of the loop of parseIPRange: append, then leave at the end
\* of the range or step
RangeStep ==
    /\ rpc = "rangeLoop"
    /\ rips' = Append(rips, IPString(rip))
    /\ IF compareIP(rip, rend) >= 0
       THEN rpc' = "done" /\ UNCHANGED rip
       ELSE rip' = inc(rip) /\ UNCHANGED rpc
    /\ UNCHANGED <<rin, rnet, rend, rerr>>

\* the character class of the host-name test of parseInternalIPs
IsHostChar(ch) ==
    \/ \E i \in 1..Len(LowerChars) : LowerChars[i] = ch
    \/ \E i \in 1..Len(UpperChars) : UpperChars[i] = ch
    \/ IsDigit(ch)
    \/ ch \in {".", "-", "_"}

\* the rest of parseInternalIPs, for a trimmed string that is neither sent
\* to parseIPRange nor to parseCIDR: an error for the empty string, the
\* string itself for an address literal or for a string of host-name
\* characters, an error for any other string
ParsePlain ==
    /\ rpc = "call"
    /\ ~IsRangeSpec(TrimSpace(rin))
    /\ ~Contains(TrimSpace(rin), <<"/">>)
    /\ LET ipStr == TrimSpace(rin)
           ok    == /\ ipStr # <<>>
                    /\ \/ ParseIP(ipStr) # <<>>
                       \/ \A i \in 1..Len(ipStr) : IsHostChar(ipStr[i])
       IN  /\ rerr' = ~ok
           /\ rips' = IF ok THEN <<ipStr>> ELSE <<>>
    /\ rpc' = "done"
    /\ UNCHANGED <<rin, rnet, rip, rend>>

-----------------------------------------------------------------------------
(* Port-list parsing (config/config.go): parsePorts.                       *)

\* mutant: every port of the range is appended, seen or not
AppendAll(list, start, end) ==
    list \o [i \in 1..(end - start + 1) |-> start + i - 1]

\* the loop over a range of parsePorts: the ports from start to end that are
\* not in the list yet are appended in ascending order
RECURSIVE AppendNew(_, _, _)
AppendNew(list, start, end) ==
    IF start > end THEN list
    ELSE IF \E i \in 1..Len(list) : list[i] = start
         THEN AppendNew(list, start + 1, end)
         ELSE AppendNew(Append(list, start), start + 1, end)

\* one element of the list: the range it stands for, or an error
ParsePart(raw) ==
    LET part  == TrimSpace(raw)
        rp    == Split(part, "-")
        s     == ScanInt(rp[1])
        e     == ScanInt(rp[2])
        one   == ScanInt(part)
        bad   == [err |-> TRUE, start |-> 0, end |-> 0]
    IN  IF Contains(part, <<"-">>)
        THEN IF Len(rp) # 2 THEN bad
             ELSE IF s.err \/ e.err THEN bad
             ELSE IF s.val < 1 \/ s.val > 65535 \/ e.val < 1 \/ e.val > 65535 THEN bad
             ELSE IF s.val > e.val THEN bad
             ELSE [err |-> FALSE, start |-> s.val, end |-> e.val]
        ELSE IF one.err THEN bad
             ELSE IF one.val < 1 \/ one.val > 65535 THEN bad
             ELSE [err |-> FALSE, start |-> one.val, end |-> one.val]

\* Inputs: lists of one to MaxParts elements, each a port, a range, or a
\* string parsePorts has to reject
PortElems ==
    << <<"8", "0">>, <<"8", "0", "-", "8", "2">>, <<"8", "2">>, <<" ", "7", "9", " ", "-", " ", "8", "1", " ">>, <<"8", "2", "-", "8", "0">>, <<"0">>, <<"6", "5", "5", "3", "5">>,
       <<"6", "5", "5", "3", "6">>, <<>> >>

RECURSIVE Join(_, _)
Join(ss, sep) ==
    IF Len(ss) = 1 THEN ss[1] ELSE ss[1] \o sep \o Join(Tail(ss), sep)

PortInputs ==
    UNION { { Join([i \in 1..n |-> PortElems[f[i]]], <<",">>) :
                f \in [1..n -> 1..Len(PortElems)] } : n \in 1..MaxParts }

PortsInit ==
    /\ ppc = "call"
    /\ pin \in PortInputs
    /\ pparts = <<>>
    /\ pidx = 0
    /\ ports = <<>>
    /\ seen = {}
    /\ perr = FALSE

\* parsePorts splits the string at the commas
PortsStart ==
    /\ ppc = "call"
    /\ pparts' = Split(pin, ",")
    /\ pidx' = 1
    /\ ppc' = "loop"
    /\ UNCHANGED <<pin, ports, seen, perr>>

\* one iteration of the loop over the elements: an error returns no ports
PortsStep ==
    /\ ppc = "loop"
    /\ pidx <= Len(pparts)
    /\ LET r == ParsePart(pparts[pidx])
       IN  IF r.err
           THEN /\ perr' = TRUE
                /\ ports' = <<>>
                /\ ppc' = "done"
                /\ UNCHANGED <<pidx, seen>>
           ELSE /\ ports' = AppendNew(ports, r.start, r.end)
                /\ seen' = seen \cup (r.start..r.end)
                /\ pidx' = pidx + 1
                /\ UNCHANGED <<ppc, perr>>
    /\ UNCHANGED <<pin, pparts>>

\* after the last element parsePorts returns the list
PortsReturn ==
    /\ ppc = "loop"
    /\ pidx > Len(pparts)
    /\ ppc' = "done"
    /\ UNCHANGED <<pin, pparts, pidx, ports, seen, perr>>

-----------------------------------------------------------------------------
(* The port-scan catalog alone (payloads/payloads.go).                     *)

\* the lists of at most n different elements of S
Lists(S, n) ==
    UNION { { f \in [1..k -> S] : \A i, j \in 1..k : i # j => f[i] # f[j] }
            : k \in 0..n }

\* addresses as the resolver returns them: dotted quads or a host name
CatAddrs == { <<"1", "0", ".", "0", ".", "0", ".", "1">>, <<"1", "0", ".", "0", ".", "0", ".", "2">>, <<"d", "b">> }

\* ports as parsePorts returns them, two of the table and two outside it
CatPorts == {22, 80, 6379, 9999}

CatInit ==
    /\ kpc = "call"
    /\ kin \in [internalIPs : Lists(CatAddrs, MaxList),
                customPorts : Lists(CatPorts, MaxList),
                includeCloudMetadata : BOOLEAN]
    /\ kout = <<>>

BuildCatalog ==
    /\ kpc = "call"
    /\ kout' = GetPortScanPayloads(kin.internalIPs, kin.customPorts,
                                   kin.includeCloudMetadata)
    /\ kpc' = "done"
    /\ UNCHANGED kin

-----------------------------------------------------------------------------
(* Request building (scanner/url_builder.go, Detector.DetectWithMethod).   *)

\* the characters of the modelled URLs in byte order
AsciiOrder ==
    <<" ", "%", "&", "+", "-", ".", "/", "0", "1", "2", "3", "4", "5", "6", "7", "8", "9", ":", "=", "?", "A", "B", "C", "D", "E", "F", "G", "H", "I", "J", "K", "L", "M", "N", "O", "P", "Q", "R", "S", "T", "U", "V", "W", "X", "Y", "Z", "_", "a", "b", "c", "d", "e", "f", "g", "h", "i", "j", "k", "l", "m", "n", "o", "p", "q", "r", "s", "t", "u", "v", "w", "x", "y", "z", "~">>

Ord(c) == CHOOSE i \in 1..Len(AsciiOrder) : AsciiOrder[i] = c

\* the order of sort.Strings
RECURSIVE StrLess(_, _)
StrLess(a, b) ==
    IF a = <<>> THEN b # <<>>
    ELSE IF b = <<>> THEN FALSE
    ELSE IF Head(a) = Head(b) THEN StrLess(Tail(a), Tail(b))
    ELSE Ord(Head(a)) < Ord(Head(b))

\* the characters url.QueryEscape replaces by %XX, with their codes
HexCodes ==
    [c \in {"%", "&", "+", "/", ":", "=", "?"} |->
        CASE c = "%" -> <<"2", "5">>
          [] c = "&" -> <<"2", "6">>
          [] c = "+" -> <<"2", "B">>
          [] c = "/" -> <<"2", "F">>
          [] c = ":" -> <<"3", "A">>
          [] c = "=" -> <<"3", "D">>
          [] c = "?" -> <<"3", "F">>]

\* url.QueryEscape: letters, digits and - _ . ~ stay, a space becomes +,
\* every other character becomes % and its code
RECURSIVE QueryEscape(_)
QueryEscape(s) ==
    IF s = <<>> THEN <<>>
    ELSE LET c == Head(s)
         IN  (IF c = " " THEN <<"+">>
              ELSE IF c \in DOMAIN HexCodes THEN <<"%">> \o HexCodes[c]
              ELSE <<c>>) \o QueryEscape(Tail(s))

\* url.QueryUnescape: + becomes a space, %XX the character of that code;
\* an error for a % that is not followed by a code
RECURSIVE QueryUnescape(_)
QueryUnescape(s) ==
    IF s = <<>> THEN [err |-> FALSE, val |-> <<>>]
    ELSE IF Head(s) = "%"
    THEN IF Len(s) >= 3 /\ \E c \in DOMAIN HexCodes : HexCodes[c] = SubSeq(s, 2, 3)
         THEN LET c    == CHOOSE c \in DOMAIN HexCodes : HexCodes[c] = SubSeq(s, 2, 3)
                  rest == QueryUnescape(SubSeq(s, 4, Len(s)))
              IN  [err |-> rest.err, val |-> <<c>> \o rest.val]
         ELSE [err |-> TRUE, val |-> <<>>]
    ELSE LET rest == QueryUnescape(Tail(s))
         IN  [err |-> rest.err,
              val |-> <<IF Head(s) = "+" THEN " " ELSE Head(s)>> \o rest.val]

\* strings.Cut at the first occurrence of the character sep
Cut(s, sep) ==
    IF \A i \in 1..Len(s) : s[i] # sep
    THEN [before |-> s, after |-> <<>>, found |-> FALSE]
    ELSE LET i == CHOOSE i \in 1..Len(s) :
                     s[i] = sep /\ \A j \in 1..(i - 1) : s[j] # sep
         IN  [before |-> SubSeq(s, 1, i - 1), after |-> SubSeq(s, i + 1, Len(s)),
              found |-> TRUE]

\* the key=value pairs of a query string in their order, as URL.Query reads
\* them: empty pieces and pieces that do not unescape are left out
QueryPairs(query) ==
    LET pieces == SelectSeq(Split(query, "&"), LAMBDA p : p # <<>>)
        kv(p)  == [key |-> QueryUnescape(Cut(p, "=").before),
                   value |-> QueryUnescape(Cut(p, "=").after)]
        good   == SelectSeq(pieces, LAMBDA p : ~kv(p).key.err /\ ~kv(p).value.err)
    IN  [i \in 1..Len(good) |->
            [key |-> kv(good[i]).key.val, value |-> kv(good[i]).value.val]]

\* url.Values of a query string: each key with its values in their order
ParseQuery(query) ==
    LET pairs == QueryPairs(query)
    IN  [k \in {pairs[i].key : i \in 1..Len(pairs)} |->
            LET mine == SelectSeq(pairs, LAMBDA p : p.key = k)
            IN  [i \in 1..Len(mine) |-> mine[i].value]]

\* Values.Add: one more value for the key
Add(v, key, value) ==
    [k \in DOMAIN v \cup {key} |->
        IF k # key THEN v[k]
        ELSE IF key \in DOMAIN v THEN Append(v[k], value) ELSE <<value>>]

\* Values.Set: the value replaces every value of the key
Set(v, key, value) ==
    [k \in DOMAIN v \cup {key} |-> IF k = key THEN <<value>> ELSE v[k]]

\* the keys in the order of sort.Strings
RECURSIVE SortedKeys(_)
SortedKeys(keys) ==
    IF keys = {} THEN <<>>
    ELSE LET first == CHOOSE k \in keys : \A o \in keys \ {k} : StrLess(k, o)
         IN  <<first>> \o SortedKeys(keys \ {first})

\* Values.Encode: key=value pairs joined by &, keys sorted, both escaped
Encode(v) ==
    LET keys     == SortedKeys(DOMAIN v)
        ofKey(k) == [i \in 1..Len(v[k]) |->
                        QueryEscape(k) \o <<"=">> \o QueryEscape(v[k][i])]
        all      == Concat([i \in 1..Len(keys) |-> ofKey(keys[i])])
    IN  IF all = <<>> THEN <<>> ELSE Join(all, <<"&">>)

\* buildTestURL: url.Parse splits the query off at the first ?, URL.String
\* puts the new query back after the unchanged scheme, host and path
buildTestURL(baseURL, paramName, payload) ==
    LET parsedURL == Cut(baseURL, "?")
        q         == Set(ParseQuery(parsedURL.after), paramName, payload)
    IN  parsedURL.before \o <<"?">> \o Encode(q)

\* buildTestBody
buildTestBody(paramName, payload) ==
    Encode(Set(<<>>, paramName, payload))

\* http.NewRequest in DetectWithMethod: the Content-Type header is set when
\* there is a body
NewRequest(method, testURL, body) ==
    [err |-> FALSE, method |-> method, url |-> testURL, body |-> body,
     contentType |-> IF body # <<>> THEN <<"a", "p", "p", "l", "i", "c", "a", "t", "i", "o", "n", "/", "x", "-", "w", "w", "w", "-", "f", "o", "r", "m", "-", "u", "r", "l", "e", "n", "c", "o", "d", "e", "d">>
                     ELSE <<>>]

\* buildTestRequest followed by the request DetectWithMethod creates from its
\* results; testPayload returns without a request when the builder fails
TestRequest(method, baseURL, paramName, payload) ==
    LET shape == buildTestRequest(method).shape
    IN  IF shape = "query"
        THEN NewRequest(method, buildTestURL(baseURL, paramName, payload), <<>>)
        ELSE IF shape = "form"
        THEN NewRequest(method, baseURL, buildTestBody(paramName, payload))
        ELSE [err |-> TRUE, method |-> method, url |-> <<>>, body |-> <<>>,
              contentType |-> <<>>]

\* target URLs: without a query, with the tested parameter, with other
\* parameters out of order, with the tested parameter twice, with an escaped
\* value
ReqURLs ==
    { <<"h", "t", "t", "p", ":", "/", "/", "t", "/">>, <<"h", "t", "t", "p", ":", "/", "/", "t", "/", "?", "u", "r", "l", "=", "x">>, <<"h", "t", "t", "p", ":", "/", "/", "t", "/", "?", "b", "=", "2", "&", "u", "r", "l", "=", "x", "&", "a", "=", "1">>,
      <<"h", "t", "t", "p", ":", "/", "/", "t", "/", "?", "u", "r", "l", "=", "x", "&", "u", "r", "l", "=", "y">>, <<"h", "t", "t", "p", ":", "/", "/", "t", "/", "?", "q", "=", "a", "%", "2", "F", "b", "+", "c", "&", "u", "r", "l", "=", "x">> }

ReqParams == { <<"u", "r", "l">>, <<"a">> }

ReqPayloads == { <<"x">>, <<"h", "t", "t", "p", ":", "/", "/", "1", "2", "7", ".", "0", ".", "0", ".", "1", ":", "6", "3", "7", "9">>, <<"a", " ", "b", "&", "u", "r", "l", "=", "z">> }

ReqInit ==
    /\ bpc = "call"
    /\ bin \in [method : validMethods, url : ReqURLs, param : ReqParams,
               payload : ReqPayloads]
    /\ bout = <<>>

BuildRequest ==
    /\ bpc = "call"
    /\ bout' = TestRequest(bin.method, bin.url, bin.param, bin.payload)
    /\ bpc' = "done"
    /\ UNCHANGED bin

-----------------------------------------------------------------------------
(* Specifications.                                                         *)

ScanIdle ==
    /\ env = [stub |-> "any", limit |-> MaxCatalog]
    /\ cfg = [Method |-> <<>>, Threads |-> 0, PayloadFile |-> <<>>, OOBServer |-> <<>>,
              OutputFile |-> <<>>, ScanDefault |-> FALSE, InternalIPs |-> <<>>,
              PortList |-> <<>>, DelayTime |-> 0]
    /\ dictFile = [readable |-> FALSE, lines |-> <<>>]
    /\ mpc = "off"
    /\ phase = "none"
    /\ catalog = <<>>
    /\ next = 1
    /\ sem = 0
    /\ wg = 0
    /\ upc = [u \in Units |-> "idle"]
    /\ ures = [u \in Units |-> NoOutcome]
    /\ utmp = [u \in Units |-> 0]
    /\ outputMux = 0
    /\ vulnCountMux = 0
    /\ vulnCount = 0
    /\ retval = -1
    /\ stdoutLast = NoLine
    /\ fileLast = NoLine
    /\ hist = [u \in Units |-> NoHist]
    /\ tot = [probes |-> 0, launched |-> 0, finished |-> 0, verdicts |-> 0]

ClsIdle == cpc = "off" /\ cin = <<>> /\ cout = <<>>

ResIdle == /\ rpc = "off" /\ rin = <<>> /\ rnet = <<>> /\ rip = <<>>
           /\ rend = <<>> /\ rips = <<>> /\ rerr = FALSE

PortsIdle == /\ ppc = "off" /\ pin = <<>> /\ pparts = <<>> /\ pidx = 0
             /\ ports = <<>> /\ seen = {} /\ perr = FALSE

CatIdle == kpc = "off" /\ kin = <<>> /\ kout = <<>>

ReqIdle == bpc = "off" /\ bin = <<>> /\ bout = <<>>

\* the scan: main, RunScan and the probe goroutines
Init == ScanInit /\ ClsIdle /\ ResIdle /\ PortsIdle /\ CatIdle /\ ReqIdle

Next ==
    /\ \/ Validate
       \/ MainOpen
       \/ RunScanStart
       \/ Submit
       \/ WaitAll
       \/ RunScanReturn
       \/ Summary
       \/ \E u \in DOMAIN upc :
             \/ Build(u)
             \/ LockProgress(u)
             \/ WriteProgress(u)
             \/ Detect(u)
             \/ LockOutcome(u)
             \/ WriteOutcome(u)
             \/ CountLockRead(u)
             \/ CountStoreUnlock(u)
             \/ UnlockOutcome(u)
             \/ Release(u)
             \/ WgDone(u)
    /\ UNCHANGED <<clsVars, resVars, portVars, catVars, reqVars>>

Spec == Init /\ [][Next]_vars

\* the end-to-end run: whole catalogs against the stub transport
InitE2E ==
    /\ env = [stub |-> "redis", limit |-> WholeCatalog]
    /\ cfg \in E2EConfigs
    /\ dictFile = [readable |-> FALSE, lines |-> <<>>]
    /\ ScanStart
    /\ ClsIdle /\ ResIdle /\ PortsIdle /\ CatIdle /\ ReqIdle

\* In the end-to-end run a goroutine that has given its slot back calls
\* wg.Done before any other step is taken: the goroutines between the two
\* statements of the deferred function would otherwise be any subset of the
\* catalog, and no value of the run depends on the order.
DoneFirst == (\E u \in DOMAIN upc : upc[u] = "wgdone") => wg' = wg - 1

SpecE2E == InitE2E /\ [][Next /\ DoneFirst]_vars

\* the classifier alone
InitClassify == ScanIdle /\ ClsInit /\ ResIdle /\ PortsIdle /\ CatIdle /\ ReqIdle

NextClassify == Classify /\ UNCHANGED <<scanVars, resVars, portVars, catVars, reqVars>>

SpecClassify == InitClassify /\ [][NextClassify]_vars

\* the resolver alone
InitResolve == ScanIdle /\ ClsIdle /\ ResInit /\ PortsIdle /\ CatIdle /\ ReqIdle

NextResolve ==
    /\ \/ CIDRStart
       \/ CIDRStep
       \/ CIDRReturn
       \/ RangeStart
       \/ RangeStep
       \/ ParsePlain
    /\ UNCHANGED <<scanVars, clsVars, portVars, catVars, reqVars>>

SpecResolve == InitResolve /\ [][NextResolve]_vars

\* GetPortScanPayloads alone
InitCatalog == ScanIdle /\ ClsIdle /\ ResIdle /\ PortsIdle /\ CatInit /\ ReqIdle

NextCatalog ==
    BuildCatalog /\ UNCHANGED <<scanVars, clsVars, resVars, portVars, reqVars>>

SpecCatalog == InitCatalog /\ [][NextCatalog]_vars

\* the request builder alone
InitRequest == ScanIdle /\ ClsIdle /\ ResIdle /\ PortsIdle /\ CatIdle /\ ReqInit

NextRequest ==
    BuildRequest /\ UNCHANGED <<scanVars, clsVars, resVars, portVars, catVars>>

SpecRequest == InitRequest /\ [][NextRequest]_vars

\* parsePorts alone
InitPorts == ScanIdle /\ ClsIdle /\ ResIdle /\ PortsInit /\ CatIdle /\ ReqIdle

NextPorts ==
    /\ \/ PortsStart
       \/ PortsStep
       \/ PortsReturn
    /\ UNCHANGED <<scanVars, clsVars, resVars, catVars, reqVars>>

SpecPorts == InitPorts /\ [][NextPorts]_vars

-----------------------------------------------------------------------------
(* Properties of the scan.                                                 *)

\* the positions at which a goroutine holds the slot its submitter acquired
HoldingPcs == {"build", "lock1", "progress", "detect", "lock2", "outcome",
               "count", "store", "unlock", "release"}

SlotsHeld == Cardinality({u \in Units : upc[u] \in HoldingPcs})

\* the positions inside a region guarded by sm.outputMux
OutputPcs == {"progress", "outcome", "count", "store", "unlock"}

\* RunScan has returned
Returned == retval # -1

\* C1: with Threads >= 1, in every state of a run and in every scan
\* function, the probe goroutines that hold a slot of the semaphore are as
\* many as the channel has elements, and never more than Threads.
C1_GateBound ==
    cfg.Threads >= 1 => (SlotsHeld = sem /\ SlotsHeld <= cfg.Threads)

\* C1 witness: in the OOB scan the gate is full and the submitter waits with
\* a payload left
C1_Witness ==
    /\ cfg.Threads >= 1
    /\ phase = "oob"
    /\ SlotsHeld = cfg.Threads
    /\ mpc = "submit"
    /\ next <= Len(catalog)

\* C2: no probe is launched twice; once RunScan has returned, every probe of
\* every catalog it went through was launched, every launched goroutine has
\* finished, and every vulnerable verdict is in the count.
C2_LaunchOnceWaitAll ==
    /\ \A u \in Units : hist[u].launched <= 1
    /\ \A u \in Units : u > Len(catalog) => hist[u].launched = 0
    /\ Returned =>
          /\ tot.launched = tot.probes
          /\ tot.finished = tot.launched
          /\ \A u \in 1..Len(catalog) : hist[u].launched = 1 /\ hist[u].finished
          /\ vulnCount = tot.verdicts

\* C2 witness: a run of three scan functions with two threads has returned
C2_Witness ==
    /\ Returned
    /\ cfg.Threads = 2
    /\ tot.probes >= 5
    /\ tot.verdicts >= 1

\* C3: what RunScan returns is the number of vulnerable verdicts of the
\* classifier, and sm.vulnCount only ever changes by an increment of one.
C3_TallyExact ==
    /\ [](Returned => retval = tot.verdicts)
    /\ [][vulnCount' = vulnCount \/ vulnCount' = vulnCount + 1]_vars

\* C3 witness: two threads, three or more vulnerable verdicts, all returned
C3_Witness ==
    /\ Returned
    /\ cfg.Threads = 2
    /\ retval >= 3
    /\ retval = tot.verdicts

C5_NoLaunchForUnsupportedMethod ==
    buildTestRequest(cfg.Method).err => tot.launched = 0

\* C6: a probe whose request failed in transport has a non-empty error
\* message and is not vulnerable, sent one request, gets one error line and
\* no vulnerability line, never reaches the count, and once RunScan has
\* returned every probe of the catalogs has run.
C6_TransportFailure ==
    /\ \A u \in Units :
          hist[u].failed =>
             /\ hist[u].sent = 1
             /\ ~hist[u].verdict
             /\ hist[u].vulns = 0
             /\ hist[u].errors <= 1
             /\ upc[u] \notin {"count", "store"}
             /\ upc[u] \in {"lock2", "outcome"} =>
                   (ures[u].errMsg # <<>> /\ ~ures[u].vulnerable)
             /\ upc[u] \in {"unlock", "release", "wgdone", "finished"} =>
                   hist[u].errors = 1
    /\ \A u \in Units : hist[u].sent <= 1
    /\ Returned => (tot.finished = tot.probes /\ vulnCount = tot.verdicts)

\* C6 witness: RunScan has returned, the first probe of the last scan
\* function failed in transport and the probe after it got an answer
C6_Witness ==
    /\ Returned
    /\ Len(catalog) >= 2
    /\ hist[1].failed /\ hist[1].errors = 1 /\ hist[1].finished
    /\ hist[2].sent = 1 /\ ~hist[2].failed /\ hist[2].finished

\* C8 as stated: an OOB probe answered with a status in [200, 400) that no
\* earlier rule matches is not vulnerable and does not reach the count.
C8_OOBNotCounted ==
    \A u \in 1..Len(catalog) :
        ( /\ catalog[u].Type = "OOBProbe"
          /\ upc[u] \in {"lock2", "outcome", "count", "store", "unlock"}
          /\ ures[u].errMsg = <<>>
          /\ ures[u].statusCode >= 200 /\ ures[u].statusCode < 400
          /\ ures[u].evidence.rule \notin 1..5 )
        => (~ures[u].vulnerable /\ upc[u] \notin {"count", "store"})

\* a line of the dictionary file that stands for a payload
IsPayloadLine(line) == TrimSpace(line) # <<>> /\ TrimSpace(line)[1] # "#"

\* the payload lines of the dictionary file, in file order, without the
\* spaces around them
DictValues ==
    LET kept == SelectSeq(dictFile.lines, IsPayloadLine)
    IN  [i \in 1..Len(kept) |-> TrimSpace(kept[i])]

\* C12: with a dictionary file configured the run goes through the
\* dictionary scan alone, and the probes it dispatches from are the payload
\* lines of the file in file order, of type CustomDictionary and without
\* keywords, whatever the addresses, the ports and the OOB server are.
C12_DictionaryOnly ==
    cfg.PayloadFile # <<>> =>
        /\ phase \in {"none", "custom"}
        /\ phase = "custom" => catalog = [i \in 1..Len(catalog) |->
                                   Payload(DictValues[i], "CustomDictionary", <<>>)]
        /\ phase = "custom" =>
              Len(catalog) = (IF Len(DictValues) < MaxCatalog THEN Len(DictValues)
                              ELSE MaxCatalog)
        /\ \A u \in Units : hist[u].launched > 0 =>
              (u <= Len(catalog) /\ catalog[u].Type = "CustomDictionary")
        /\ Returned => tot.launched = tot.probes

\* C12 witness: a run with a dictionary file, an OOB server, addresses and
\* ports has returned after two dictionary probes
C12_Witness ==
    /\ Returned
    /\ cfg.PayloadFile # <<>> /\ cfg.OOBServer # <<>>
    /\ cfg.InternalIPs # <<>> /\ cfg.PortList # <<>>
    /\ phase = "custom"
    /\ tot.launched = 2

\* C13: against the stub transport, with GET, the default target space and
\* no dictionary file, RunScan returns exactly 1, and a vulnerable outcome
\* is the one of the probe http://127.0.0.1:6379, by rule 1 with the
\* evidence redis_version.
C13_EndToEnd ==
    /\ Returned => retval = 1
    /\ \A u \in 1..Len(catalog) :
          (upc[u] \in {"lock2", "outcome", "count", "store", "unlock"}
           /\ ures[u].vulnerable) =>
             /\ catalog[u].Value = <<"h", "t", "t", "p", ":", "/", "/", "1", "2", "7", ".", "0", ".", "0", ".", "1", ":", "6", "3", "7", "9">>
             /\ ures[u].evidence.rule = 1
             /\ ures[u].evidence.detail = <<"r", "e", "d", "i", "s", "_", "v", "e", "r", "s", "i", "o", "n">>
    /\ vulnCount <= 1

\* C13 witness: the run has returned 1 after the port scan of 57 probes and
\* the cloud metadata probes, and the file-read scan
C13_Witness ==
    /\ Returned
    /\ retval = 1
    /\ phase = "file"
    /\ tot.probes = 57 + 4 + 9
    /\ tot.finished = tot.probes

\* C14 as stated: while RunScan runs with an output file configured, the
\* last line of the file is the last line of the terminal.
C14_FileMirrorsStdout ==
    (cfg.OutputFile # <<>> /\ mpc \in {"submit", "return"}) => fileLast = stdoutLast

\* C15 as stated: with a delay configured, a probe goroutine gets to the
\* point where it sends its request only by a step that waits the delay.
C15_DelayBeforeRequest ==
    [][\A u \in Units :
          (cfg.DelayTime > 0 /\ upc'[u] = "detect" /\ upc[u] # "detect")
             => upc[u] = "delay"]_vars

\* C19 as stated: when the configured dictionary cannot be loaded, no probe
\* is dispatched, no slot is taken, the tally stays 0, and the run does not
\* end as a completed scan: no summary line, no normal return of main.
C19_DictionaryAbort ==
    (cfg.PayloadFile # <<>> /\ loadCustomPayloads(dictFile).err) =>
        /\ tot.launched = 0
        /\ sem = 0
        /\ vulnCount = 0
        /\ stdoutLast.kind # "summary"
        /\ mpc # "done"

\* C21 as stated: RunScan returns in every run Validate accepts.  A run
\* takes finitely many steps, so it returns exactly when it cannot stop
\* before: while RunScan is running, the submitter or some probe goroutine
\* can take a step.
C21_RunScanReturns ==
    mpc \in {"runscan", "submit", "return"} => ENABLED Next

\* the positions at which a goroutine waits for sm.outputMux
WaitOutputPcs == {"lock1", "lock2"}

\* C22: sm.vulnCountMux is held only by the goroutine that holds
\* sm.outputMux, between its two steps of the count, and is free again when
\* sm.outputMux is unlocked; no goroutine that waits for sm.outputMux holds
\* a lock; the holder of a lock is inside its region, on the way to the
\* unlock; a goroutine outside the regions holds no lock, and one that has
\* left testPayload by any return has given its slot back; once RunScan has
\* returned both locks are free and the semaphore is empty.
C22_LocksNeverDeadlock ==
    /\ [](/\ vulnCountMux # 0 =>
               (outputMux = vulnCountMux /\ upc[vulnCountMux] = "store")
          /\ outputMux # 0 => upc[outputMux] \in OutputPcs
          /\ \A u \in Units :
                 /\ upc[u] \in WaitOutputPcs => (outputMux # u /\ vulnCountMux # u)
                 /\ upc[u] \notin OutputPcs => (outputMux # u /\ vulnCountMux # u)
          /\ sem = Cardinality({u \in Units : upc[u] \in HoldingPcs})
          /\ Returned => (outputMux = 0 /\ vulnCountMux = 0 /\ sem = 0))
    /\ [][(outputMux # 0 /\ outputMux' = 0) => (vulnCountMux = 0 /\ vulnCountMux' = 0)]_vars

\* C22 witness: a goroutine is inside the count, holding both locks, while
\* another one waits for sm.outputMux
C22_Witness ==
    /\ vulnCountMux # 0
    /\ outputMux = vulnCountMux
    /\ \E u \in Units : upc[u] \in WaitOutputPcs

-----------------------------------------------------------------------------
(* Properties of the classifier.                                           *)

\* the keywords of the payload that occur in the body as they are written
KeywordHits == {k \in 1..Len(cin.payload.Keywords) :
                  Contains(cin.body, cin.payload.Keywords[k])}

\* C7: when the payload has keywords and the body contains one of them
\* literally, the verdict is vulnerable by rule 1 and its evidence is the
\* first such keyword in keyword order, whatever the status, the Server
\* header, the category and the later rules say.
C7_KeywordFirst ==
    (cpc = "done" /\ KeywordHits # {}) =>
        /\ cout.vulnerable
        /\ cout.rule = 1
        /\ \E k \in KeywordHits :
              /\ \A h \in KeywordHits : k <= h
              /\ cout.detail = cin.payload.Keywords[k]

\* C7 witness: a body longer than the threshold of rule 3 that holds a
\* sensitive token, then the second keyword of the probe and after it the
\* first: the evidence is the first keyword
C7_Witness ==
    /\ cpc = "done"
    /\ KeywordHits = {1, 2}
    /\ SensitiveRule(cin.body).vulnerable
    /\ cout.rule = 1
    /\ cout.detail = cin.payload.Keywords[1]

-----------------------------------------------------------------------------
(* Properties of the resolver.                                             *)

\* the input is a CIDR string net.ParseCIDR accepts
ValidCidr == rin \in { c \in CidrInputs : ~ParseCIDR(c).err }

CidrOnes == Atoi(Split(rin, "/")[2])

CidrAddr == ParseIP(Split(rin, "/")[1])

\* the number of addresses of the network and the first of them
CidrSize == 2 ^ (32 - CidrOnes)

CidrFirst == Low(CidrAddr) - (Low(CidrAddr) % CidrSize)

\* every address of the network, in ascending numeric order
CidrBlock == [i \in 1..CidrSize |-> IPString(FromLow(CidrAddr[1], CidrFirst + i - 1))]

\* C9: resolving a valid CIDR string returns without an error the addresses
\* of the masked network in ascending numeric order, without the first and
\* the last when the network has more than two addresses and whole when it
\* has one or two; a /24 gives 254 addresses.
C9_CidrBlock ==
    (rpc = "done" /\ ValidCidr) =>
        /\ ~rerr
        /\ rips = IF CidrSize > 2 THEN SubSeq(CidrBlock, 2, CidrSize - 1)
                  ELSE CidrBlock
        /\ CidrOnes = 24 => Len(rips) = 254

\* C9 witness: 192.168.1.0/24 resolved to the 254 addresses .1 to .254
C9_Witness ==
    /\ rpc = "done"
    /\ rin = <<"1", "9", "2", ".", "1", "6", "8", ".", "1", ".", "0", "/", "2", "4">>
    /\ Len(rips) = 254
    /\ rips[1] = <<"1", "9", "2", ".", "1", "6", "8", ".", "1", ".", "1">>
    /\ rips[254] = <<"1", "9", "2", ".", "1", "6", "8", ".", "1", ".", "2", "5", "4">>

\* the two ends a range string stands for: the end is a full literal, or a
\* bare last octet put in the place of the last octet of the start
RangeParts == Split(TrimSpace(rin), "-")

RangeFirst == ParseIP(TrimSpace(RangeParts[1]))

RangeLast ==
    LET e == TrimSpace(RangeParts[2])
    IN  IF Contains(e, <<".">>) THEN ParseIP(e)
        ELSE IF /\ Len(e) \in 1..3
                /\ \A j \in 1..Len(e) : IsDigit(e[j])
                /\ Atoi(e) <= 255
             THEN [RangeFirst EXCEPT ![4] = Atoi(e)]
        ELSE <<>>

\* the input is start-end with a full literal or a bare last octet as its end
ValidRange ==
    /\ rin \in RangeInputs
    /\ Len(RangeParts) = 2
    /\ RangeFirst # <<>>
    /\ RangeLast # <<>>

\* start is greater than end, octet by octet
RangeReversed ==
    \E i \in 1..4 :
        /\ RangeFirst[i] > RangeLast[i]
        /\ \A j \in 1..(i - 1) : RangeFirst[j] = RangeLast[j]

\* the addresses from start to end inclusive, in ascending order
RangeAll ==
    [i \in 1..(Low(RangeLast) - Low(RangeFirst) + 1) |->
        IPString(FromLow(RangeFirst[1], Low(RangeFirst) + i - 1))]

\* C10: resolving start-end returns every address from start to end
\* inclusive, ascending, without gaps or duplicates; with start greater than
\* end it returns an error and no addresses; and the loop ends, also when
\* end is 255.255.255.255: every iteration appends one address, and inside
\* the loop the list is a proper prefix of the addresses of the range.
C10_RangeInclusive ==
    (ValidRange /\ rpc # "call") =>
        IF RangeReversed
        THEN rpc = "done" /\ rerr /\ rips = <<>>
        ELSE /\ ~rerr
             /\ rpc = "rangeLoop" =>
                   /\ Len(rips) < Len(RangeAll)
                   /\ rips = SubSeq(RangeAll, 1, Len(rips))
                   /\ IPString(rip) = RangeAll[Len(rips) + 1]
             /\ rpc = "done" => rips = RangeAll

\* C10 witness: "10.0.0.5-8" resolved to 10.0.0.5, 10.0.0.6, 10.0.0.7, 10.0.0.8
C10_Witness ==
    /\ rpc = "done"
    /\ rin = <<"1", "0", ".", "0", ".", "0", ".", "5", "-", "8">>
    /\ rips = << <<"1", "0", ".", "0", ".", "0", ".", "5">>, <<"1", "0", ".", "0", ".", "0", ".", "6">>, <<"1", "0", ".", "0", ".", "0", ".", "7">>, <<"1", "0", ".", "0", ".", "0", ".", "8">> >>

\* the characters an accepted host name may have
IsPlainHostChar(ch) ==
    \/ \E i \in 1..Len(LowerChars) : LowerChars[i] = ch
    \/ \E i \in 1..Len(UpperChars) : UpperChars[i] = ch
    \/ \E i \in 1..Len(DigitChars) : DigitChars[i] = ch
    \/ ch \in {".", "_"}

-----------------------------------------------------------------------------
(* Properties of the port-list parsing.                                    *)

\* the elements of the list as written, without the spaces around them
PortItems == [i \in 1..Len(Split(pin, ",")) |-> TrimSpace(Split(pin, ",")[i])]

IsNumber(s) == Len(s) \in 1..5 /\ \A j \in 1..Len(s) : IsDigit(s[j])

\* an element is an integer or two integers around a "-"
IsPortItem(e) ==
    \/ IsNumber(e)
    \/ /\ Len(Split(e, "-")) = 2
       /\ IsNumber(TrimSpace(Split(e, "-")[1]))
       /\ IsNumber(TrimSpace(Split(e, "-")[2]))

ItemStart(e) == Atoi(TrimSpace(Split(e, "-")[1]))

ItemEnd(e) == Atoi(TrimSpace(Split(e, "-")[Len(Split(e, "-"))]))

\* an element with an integer outside 1..65535 or with start > end
BadPortItem(e) ==
    \/ ItemStart(e) \notin 1..65535
    \/ ItemEnd(e) \notin 1..65535
    \/ ItemStart(e) > ItemEnd(e)

\* the ports the elements stand for, in the order written, with repetitions
RECURSIVE ItemPorts(_)
ItemPorts(items) ==
    IF items = <<>> THEN <<>>
    ELSE [i \in 1..(ItemEnd(items[1]) - ItemStart(items[1]) + 1) |->
             ItemStart(items[1]) + i - 1] \o ItemPorts(Tail(items))

\* s without the later occurrences of its elements
FirstSeen(s) ==
    LET keep == {i \in 1..Len(s) : \A j \in 1..(i - 1) : s[j] # s[i]}
        nth(k) == CHOOSE i \in keep : Cardinality({j \in keep : j <= i}) = k
    IN  [k \in 1..Cardinality(keep) |-> s[nth(k)]]

\* C11: a list of integers and start-end ranges resolves to its ports in the
\* order of their first occurrence, without duplicates and all in 1..65535;
\* a list with an integer outside 1..65535, a range with start > end or an
\* empty element gives an error and no ports.
C11_PortsFirstSeen ==
    ppc = "done" =>
        /\ (\E i \in 1..Len(PortItems) : PortItems[i] = <<>>) => (perr /\ ports = <<>>)
        /\ (\A i \in 1..Len(PortItems) : IsPortItem(PortItems[i])) =>
              IF \E i \in 1..Len(PortItems) : BadPortItem(PortItems[i])
              THEN perr /\ ports = <<>>
              ELSE /\ ~perr
                   /\ ports = FirstSeen(ItemPorts(PortItems))
                   /\ \A i \in 1..Len(ports) : ports[i] \in 1..65535
                   /\ \A i, j \in 1..Len(ports) : ports[i] = ports[j] => i = j

\* C11 witness: "80,80-82,82" resolved to 80, 81, 82
C11_Witness ==
    /\ ppc = "done"
    /\ pin = <<"8", "0", ",", "8", "0", "-", "8", "2", ",", "8", "2">>
    /\ ~perr
    /\ ports = <<80, 81, 82>>

\* the address that differs from the network address in its first bit
OtherHalf == [rnet.IP EXCEPT ![1] = (@ + 128) % 256]

\* C20 as stated: the loop of parseCIDR ends for every valid CIDR string.
\* inc runs through all addresses in a cycle, so the loop ends exactly when
\* some address is outside the network, and an address is outside exactly
\* when the one in the other half of the address space is: while the loop
\* runs, that address is not in the network.
C20_CidrLoopLeaves ==
    rpc = "cidrLoop" => ~NetContains(rnet, OtherHalf)

-----------------------------------------------------------------------------
(* Properties of the port-scan catalog.                                    *)

\* the address list and the port list a catalog is built from
CatIPs == IF kin.internalIPs = <<>>
          THEN << <<"1", "2", "7", ".", "0", ".", "0", ".", "1">>, <<"l", "o", "c", "a", "l", "h", "o", "s", "t">>, <<"0", ".", "0", ".", "0", ".", "0">> >>
          ELSE kin.internalIPs

CatPortList == IF kin.customPorts = <<>> THEN highRiskPorts ELSE kin.customPorts

\* the PortScan probes of the returned catalog, in catalog order
PortScanProbes == SelectSeq(kout, LAMBDA p : p.Type = "PortScan")

TablePorts == {6379, 3306, 5432, 27017, 9200, 11211, 2375, 80, 443, 8080, 8888}

\* C17 as stated: the PortScan probe of a port that is not in the table
\* carries the generic keyword pair "HTTP/", "Server:".
C17_GenericKeywords ==
    kpc = "done" =>
        LET np == Len(CatPortList)
        IN  \A i \in 1..Len(CatIPs) : \A j \in 1..np :
               CatPortList[j] \notin TablePorts =>
                  PortScanProbes[(i - 1) * np + j].Keywords =
                      << <<"H", "T", "T", "P", "/">>, <<"S", "e", "r", "v", "e", "r", ":">> >>

-----------------------------------------------------------------------------
(* Properties of request building.                                         *)

\* the decoded parameters of the target URL and of the request URL
OldQuery == ParseQuery(Cut(bin.url, "?").after)

NewQuery == ParseQuery(Cut(bout.url, "?").after)

=============================================================================
